---------------------------- MODULE Spec2Model ----------------------------
(* A model of the apo terminal UI engine: the scrollable/filterable List  *)
(* widget (internal/ui/components), the views' key handlers               *)
(* (internal/ui/views), and the application controller with its           *)
(* background refresh task (internal/ui/app.go).                          *)
(*                                                                        *)
(* Texts (labels, filter queries, the Copilot input) are sequences of     *)
(* one-character strings.  Go slices are 0-indexed; TLA+ sequences are    *)
(* 1-indexed, so element i of a slice is s[i+1] here.                     *)
EXTENDS Integers, Sequences, FiniteSets, TLC

\* ------------------------------------------------------------------
\* Bounds of the model
\* ------------------------------------------------------------------
\* longest item sequence handed to List.SetItems in the widget-level runs
MaxItems == 3
\* longest filter query handed to List.SetFilter in the widget-level runs
MaxQuery == 2
\* largest viewport height (List.height) a terminal of the model gives
MaxHeight == 2
\* refresh tasks one run launches (the one at startup included)
MaxRefresh == 2
\* longest text the Copilot input or a list view's filter query holds
MaxText == 1
\* most tabs of a tab bar in the widget-level runs
MaxTabs == 3
\* most bytes waiting on standard input
MaxPending == 3

\* ------------------------------------------------------------------
\* Texts
\* ------------------------------------------------------------------
\* strings.ToLower on one character (the letters of the model are a, b
\* and A..E)
ToLowerChar(c) ==
    CASE c = "A" -> "a"
      [] c = "B" -> "b"
      [] c = "C" -> "c"
      [] c = "D" -> "d"
      [] c = "E" -> "e"
      [] OTHER -> c

\* strings.ToLower
ToLower(s) == [i \in 1..Len(s) |-> ToLowerChar(s[i])]

\* strings.Contains(s, sub)
Contains(s, sub) ==
    \E i \in 0..(Len(s) - Len(sub)) : SubSeq(s, i + 1, i + Len(sub)) = sub

\* the primary labels the model's items carry
Labels == { <<"a", "b">>, <<"A">>, <<"B", "a">> }

\* characters a filter query is made of
QueryChars == {"a", "A", "b"}

RECURSIVE SeqsUpTo(_, _)
\* all sequences over S of length at most n
SeqsUpTo(S, n) ==
    IF n = 0 THEN { <<>> }
    ELSE LET shorter == SeqsUpTo(S, n - 1)
         IN  shorter \cup { Append(s, x) : s \in shorter, x \in S }

\* the item sequences SetItems is called with (an item is its Label)
ItemSeqs == SeqsUpTo(Labels, MaxItems)

\* the queries SetFilter is called with
Queries == SeqsUpTo(QueryChars, MaxQuery)

\* ------------------------------------------------------------------
\* components.List
\* ------------------------------------------------------------------
\* a nil *ListItem
NoItem == -1

\* NewList: the zero value of every field
NewList ==
    [ items |-> <<>>, filtered |-> <<>>, selected |-> 0, scroll |-> 0,
      height |-> 0, filterMode |-> FALSE, filterQuery |-> <<>> ]

\* List.activeIndices: the filtered index slice when it is non-empty,
\* otherwise the indices 0..len(items)-1
activeIndices(l) ==
    IF Len(l.filtered) > 0 THEN l.filtered
    ELSE [i \in 1..Len(l.items) |-> i - 1]

\* List.ClearFilter
ClearFilter(l) ==
    [l EXCEPT !.filterQuery = <<>>, !.filtered = <<>>,
              !.selected = 0, !.scroll = 0]

\* List.SetItems
SetItems(l, items) == ClearFilter([l EXCEPT !.items = items])

\* List.SelectedIndex
SelectedIndex(l) == l.selected

\* List.SelectedItem: the index into items of the selected item, or NoItem
SelectedItem(l) ==
    LET indices == activeIndices(l)
    IN  IF l.selected >= 0 /\ l.selected < Len(indices)
        THEN LET idx == indices[l.selected + 1]
             IN  IF idx < Len(l.items) THEN idx ELSE NoItem
        ELSE NoItem

\* List.adjustScroll
adjustScroll(l) ==
    IF l.height <= 0 THEN l
    ELSE LET up == IF l.selected < l.scroll
                   THEN [l EXCEPT !.scroll = l.selected] ELSE l
         IN  IF up.selected >= up.scroll + up.height
             THEN [up EXCEPT !.scroll = up.selected - up.height + 1]
             ELSE up

\* List.MoveUp
MoveUp(l) ==
    IF l.selected > 0
    THEN adjustScroll([l EXCEPT !.selected = l.selected - 1])
    ELSE l

\* List.MoveDown
MoveDown(l) ==
    IF l.selected < Len(activeIndices(l)) - 1
    THEN adjustScroll([l EXCEPT !.selected = l.selected + 1])
    ELSE l

\* List.MoveToTop
MoveToTop(l) == [l EXCEPT !.selected = 0, !.scroll = 0]

\* List.MoveToBottom
MoveToBottom(l) ==
    LET indices == activeIndices(l)
    IN  IF Len(indices) > 0
        THEN adjustScroll([l EXCEPT !.selected = Len(indices) - 1])
        ELSE l

\* List.applyFilter without the reset of the selection and the scroll
applyFilterKeepingSelection(l) ==
    IF l.filterQuery = <<>> THEN [l EXCEPT !.filtered = <<>>]
    ELSE LET query == ToLower(l.filterQuery)
             all == [i \in 1..Len(l.items) |-> i - 1]
             hit(i) == Contains(ToLower(l.items[i + 1]), query)
         IN  [l EXCEPT !.filtered = SelectSeq(all, hit)]

\* List.applyFilter
applyFilter(l) ==
    IF l.filterQuery = <<>> THEN [l EXCEPT !.filtered = <<>>]
    ELSE LET query == ToLower(l.filterQuery)
             all == [i \in 1..Len(l.items) |-> i - 1]
             hit(i) == Contains(ToLower(l.items[i + 1]), query)
         IN  [l EXCEPT !.filtered = SelectSeq(all, hit),
                       !.selected = 0, !.scroll = 0]

\* List.SetFilter
SetFilter(l, query) == applyFilter([l EXCEPT !.filterQuery = query])

\* List.ToggleFilterMode without the ClearFilter on leaving filter mode
ToggleFilterModeKeepingFilter(l) == [l EXCEPT !.filterMode = ~l.filterMode]

\* List.ToggleFilterMode
ToggleFilterMode(l) ==
    LET t == [l EXCEPT !.filterMode = ~l.filterMode]
    IN  IF ~t.filterMode THEN ClearFilter(t) ELSE t

\* List.IsFilterMode
IsFilterMode(l) == l.filterMode

\* List.FilterQuery
FilterQuery(l) == l.filterQuery

\* List.Render: the one assignment it makes to the list (the rest is output)
Render(l, height) == [l EXCEPT !.height = height - 3]

\* ------------------------------------------------------------------
\* terminal.Key
\* ------------------------------------------------------------------
\* a key event carrying a character
KeyRune(r) == [type |-> "KeyRune", rune |-> r]

\* a key event of any other type (Rune keeps its zero value)
Key(t) == [type |-> t, rune |-> ""]

\* the bytes of the model: NUL, the five control bytes ReadKey knows, a
\* line feed, '[', 'A'..'E', 'q' and 0xC3, a byte above the ASCII range
\* (the first byte a terminal sends for an accented Latin letter)
Bytes == {0, 3, 9, 10, 13, 27, 127, 91, 65, 66, 67, 68, 69, 113, 195}

\* rune(b): the character of a byte (the zero rune is "", as in Key(t))
Chr(b) ==
    CASE b = 0 -> ""
      [] b = 3 -> "^C"
      [] b = 9 -> "^I"
      [] b = 10 -> "^J"
      [] b = 13 -> "^M"
      [] b = 27 -> "^["
      [] b = 127 -> "^?"
      [] b = 91 -> "["
      [] b = 65 -> "A"
      [] b = 66 -> "B"
      [] b = 67 -> "C"
      [] b = 68 -> "D"
      [] b = 69 -> "E"
      [] b = 113 -> "q"
      [] b = 195 -> "U+00C3"

\* the name of a byte above the ASCII range, as an element of a text
ByteName(b) ==
    CASE b = 195 -> "0xC3"
      [] b = 131 -> "0x83"

\* string(c) for a rune c: the UTF-8 encoding of the character, one byte
\* for a character below 0x80 and two bytes for one in 0x80..0xFF
RuneString(c) ==
    IF \E b \in Bytes : b >= 128 /\ Chr(b) = c
    THEN LET b == CHOOSE x \in Bytes : x >= 128 /\ Chr(x) = c
         IN  <<ByteName(192 + (b \div 64)), ByteName(128 + (b % 64))>>
    ELSE <<c>>

\* len(buf) in Terminal.ReadKey
BufSize == 3

\* Terminal.ReadKey that decodes the first byte whatever the number of
\* bytes read
ReadKeyFirstByte(read) ==
    CASE read[1] = 3 -> Key("KeyCtrlC")
      [] read[1] = 9 -> Key("KeyTab")
      [] read[1] = 13 -> Key("KeyEnter")
      [] read[1] = 27 -> Key("KeyEscape")
      [] read[1] = 127 -> Key("KeyBackspace")
      [] OTHER -> KeyRune(Chr(read[1]))

\* Terminal.ReadKey on the n = Len(read) bytes that os.Stdin.Read put
\* at the start of buf (err is nil, n >= 1)
ReadKey(read) ==
    LET n == Len(read)
    IN  IF n = 1
        THEN CASE read[1] = 3 -> Key("KeyCtrlC")
               [] read[1] = 9 -> Key("KeyTab")
               [] read[1] = 13 -> Key("KeyEnter")
               [] read[1] = 27 -> Key("KeyEscape")
               [] read[1] = 127 -> Key("KeyBackspace")
               [] OTHER -> KeyRune(Chr(read[1]))
        ELSE IF n >= 3 /\ read[1] = 27 /\ read[2] = 91
                  /\ read[3] \in {65, 66, 67, 68}
             THEN CASE read[3] = 65 -> Key("KeyUp")
                    [] read[3] = 66 -> Key("KeyDown")
                    [] read[3] = 67 -> Key("KeyRight")
                    [] read[3] = 68 -> Key("KeyLeft")
             ELSE KeyRune(Chr(read[1]))

\* strings.TrimSpace on a text of the model (the only white space is " ")
RECURSIVE TrimSpace(_)
TrimSpace(s) ==
    IF s = <<>> THEN s
    ELSE IF Head(s) = " " THEN TrimSpace(Tail(s))
    ELSE IF s[Len(s)] = " " THEN TrimSpace(SubSeq(s, 1, Len(s) - 1))
    ELSE s

\* ------------------------------------------------------------------
\* views.ViewID, the tab bar
\* ------------------------------------------------------------------
ViewDashboard == "dashboard"
ViewBoards == "boards"
ViewPipelines == "pipelines"
ViewRepos == "repos"
ViewPullRequests == "pullrequests"
ViewCopilot == "copilot"
ViewWorkItemDetail == "workitem_detail"
ViewPRDetail == "pr_detail"

\* the four views that own a components.List
ListViews == {ViewBoards, ViewPipelines, ViewRepos, ViewPullRequests}

\* the IDs of the tabs NewApp builds, in tab-bar order
Tabs == <<"dashboard", "boards", "pipelines", "repos", "prs", "copilot">>

\* TabBar.SetActiveByID: the new active index
SetActiveByID(active, id) ==
    IF \E i \in 1..Len(Tabs) : Tabs[i] = id
    THEN (CHOOSE i \in 1..Len(Tabs) : Tabs[i] = id) - 1
    ELSE active

\* TabBar.Next without the remainder: the new active index
TabBarNextNoWrap(active) == active + 1

\* TabBar.Next: the new active index
TabBarNext(active) == (active + 1) % Len(Tabs)

\* NewTabBar: a tab bar over the given tab ids, the first one active
NewTabBar(tabs) == [tabs |-> tabs, active |-> 0]

\* TabBar.SetActive on a tab bar of any length
SetActive(t, index) ==
    IF index >= 0 /\ index < Len(t.tabs) THEN [t EXCEPT !.active = index]
    ELSE t

\* TabBar.SetActiveByID on a tab bar of any length: the first tab with
\* the id becomes active
SetActiveByIDOf(t, id) ==
    LET hits == {i \in 1..Len(t.tabs) : t.tabs[i] = id}
    IN  IF hits = {} THEN t
        ELSE [t EXCEPT !.active = (CHOOSE i \in hits : \A h \in hits : i <= h) - 1]

\* TabBar.Next without the remainder by the number of tabs
NextOfNoWrap(t) == [t EXCEPT !.active = t.active + 1]

\* TabBar.Next on a tab bar of any length (it has at least one tab:
\* the remainder by zero panics)
NextOf(t) == [t EXCEPT !.active = (t.active + 1) % Len(t.tabs)]

\* ------------------------------------------------------------------
\* Domain records and the labels the list views give them
\* ------------------------------------------------------------------
\* a record of any of the five categories: its numeric id (one digit in
\* the model) and its title / name
Rec(id, title) == [id |-> id, title |-> title]

\* the nil record pointer of a detail view
NoRecord == [id |-> "", title |-> <<>>]

\* BoardsView.SetWorkItems: Label = "#%d %s [%s]" (the state is empty)
WorkItemLabel(w) == <<"#", w.id, " ">> \o w.title \o <<" ", "[", "]">>

\* PipelinesView.SetPipelines: Label = "[%d] %s"
PipelineLabel(p) == <<"[", p.id, "]", " ">> \o p.title

\* ReposView.SetRepositories: Label = "%s (%s)" (the branch is empty)
RepoLabel(r) == r.title \o <<" ", "(", ")">>

\* PullRequestsView.SetPullRequests: Label = "#%d %s (%s->%s)"
PullRequestLabel(pr) == <<"#", pr.id, " ">> \o pr.title \o <<" ", "(", ">", ")">>

\* the label a list view gives a record
LabelOf(v, r) ==
    CASE v = ViewBoards -> WorkItemLabel(r)
      [] v = ViewPipelines -> PipelineLabel(r)
      [] v = ViewRepos -> RepoLabel(r)
      [] v = ViewPullRequests -> PullRequestLabel(r)

\* the ListItem sequence a list view builds from a collection
ListItemsOf(v, recs) == [i \in 1..Len(recs) |-> LabelOf(v, recs[i])]

\* ------------------------------------------------------------------
\* ui.App and the views it owns
\* ------------------------------------------------------------------
\* NewApp: the App after construction, on a terminal of h rows
NewApp(h) ==
    [ termHeight |-> h, rawMode |-> FALSE, cursor |-> TRUE,
      running |-> FALSE,
      currentView |-> ViewDashboard, previousView |-> "",
      tabActive |-> 0,
      lists |-> [v \in ListViews |-> NewList],
      viewData |-> [v \in ListViews |-> <<>>],
      dashboard |-> [workItems |-> <<>>, builds |-> <<>>, prs |-> <<>>],
      input |-> [value |-> <<>>, active |-> FALSE],
      history |-> FALSE,
      workItemDetail |-> NoRecord, prDetail |-> NoRecord,
      workItems |-> <<>>, builds |-> <<>>, pipelineList |-> <<>>,
      repoList |-> <<>>, prList |-> <<>>,
      lastRefresh |-> 0, loading |-> FALSE,
      mu |-> [writer |-> 0, readers |-> 0],
      message |-> "", statusRefresh |-> 0,
      hooks |-> <<>>, termWriter |-> "none", reached |-> <<>> ]

\* App.isDetailView
isDetailView(a) == a.currentView \in {ViewWorkItemDetail, ViewPRDetail}

\* output on the terminal device (Clear, MoveTo, HideCursor, ShowCursor,
\* fmt.Print) by goroutine who: the device remembers its last writer
termPrint(a, who) == [a EXCEPT !.termWriter = who]

\* App.setStatus / StatusBar.SetMessage
setStatus(a, msg) == [a EXCEPT !.message = msg]

\* one call of a view's hook, as the App's hooks field records it
HookCall(hook, view) == [hook |-> hook, view |-> view]

\* an OnExit that is BaseView's for every view: it does nothing
OnExitOfBaseView(a) ==
    [a EXCEPT !.hooks = Append(@, HookCall("OnExit", a.currentView))]

\* getCurrentView().OnExit() and getCurrentView().OnEnter(): CopilotView's
\* hooks turn the input and the cursor off and on, BaseView's do nothing
OnExit(a) ==
    LET called == [a EXCEPT !.hooks = Append(@, HookCall("OnExit", a.currentView))]
    IN  IF a.currentView = ViewCopilot
        THEN [called EXCEPT !.input.active = FALSE, !.cursor = FALSE]
        ELSE called

OnEnter(a) ==
    LET called == [a EXCEPT !.hooks = Append(@, HookCall("OnEnter", a.currentView))]
    IN  IF a.currentView = ViewCopilot
        THEN [called EXCEPT !.input.active = TRUE, !.cursor = TRUE]
        ELSE called

\* the tab ID switchToView selects for a view (none for a detail view)
TabIDOf(id) ==
    CASE id = ViewDashboard -> "dashboard"
      [] id = ViewBoards -> "boards"
      [] id = ViewPipelines -> "pipelines"
      [] id = ViewRepos -> "repos"
      [] id = ViewPullRequests -> "prs"
      [] id = ViewCopilot -> "copilot"
      [] OTHER -> ""

\* a switchToView whose early return tests the previous view
switchToViewTestsPrevious(a, id) ==
    IF a.previousView = id THEN a
    ELSE LET left == OnExit(a)
             moved == [left EXCEPT !.previousView = left.currentView,
                                   !.currentView = id]
             entered == OnEnter(moved)
         IN  [entered EXCEPT
                 !.tabActive = SetActiveByID(entered.tabActive, TabIDOf(id))]

\* App.switchToView
switchToView(a, id) ==
    IF a.currentView = id THEN a
    ELSE LET left == OnExit(a)
             moved == [left EXCEPT !.previousView = left.currentView,
                                   !.currentView = id]
             entered == OnEnter(moved)
         IN  [entered EXCEPT
                 !.tabActive = SetActiveByID(entered.tabActive, TabIDOf(id))]

\* the view a tab ID stands for in switchToTabView
ViewOfTab(tab) ==
    CASE tab = "dashboard" -> ViewDashboard
      [] tab = "boards" -> ViewBoards
      [] tab = "pipelines" -> ViewPipelines
      [] tab = "repos" -> ViewRepos
      [] tab = "prs" -> ViewPullRequests
      [] tab = "copilot" -> ViewCopilot

\* App.switchToTabView
switchToTabView(a) ==
    IF a.tabActive >= 0 /\ a.tabActive < Len(Tabs)
    THEN switchToView(a, ViewOfTab(Tabs[a.tabActive + 1]))
    ELSE a

\* App.showWorkItemDetail
showWorkItemDetail(a, item) ==
    [a EXCEPT !.workItemDetail = item,
              !.previousView = a.currentView,
              !.currentView = ViewWorkItemDetail]

\* a showPRDetail that does not record the view it was opened from
showPRDetailNoPrevious(a, pr) ==
    [a EXCEPT !.prDetail = pr, !.currentView = ViewPRDetail]

\* App.showPRDetail
showPRDetail(a, pr) ==
    [a EXCEPT !.prDetail = pr,
              !.previousView = a.currentView,
              !.currentView = ViewPRDetail]

\* ------------------------------------------------------------------
\* The views' key handlers
\* ------------------------------------------------------------------
\* a HandleKey whose filter mode sets the query to the character typed
ListHandleKeyTypingOver(l, k) ==
    IF IsFilterMode(l)
    THEN CASE k.type \in {"KeyEnter", "KeyEscape"} -> ToggleFilterMode(l)
           [] k.type = "KeyBackspace" ->
                LET q == FilterQuery(l)
                IN  IF Len(q) > 0 THEN SetFilter(l, SubSeq(q, 1, Len(q) - 1))
                    ELSE l
           [] k.type = "KeyRune" ->
                SetFilter(l, RuneString(k.rune))
           [] OTHER -> l
    ELSE CASE k.type = "KeyUp" -> MoveUp(l)
           [] k.type = "KeyDown" -> MoveDown(l)
           [] k.type = "KeyRune" /\ k.rune = "j" -> MoveDown(l)
           [] k.type = "KeyRune" /\ k.rune = "k" -> MoveUp(l)
           [] k.type = "KeyRune" /\ k.rune = "g" -> MoveToTop(l)
           [] k.type = "KeyRune" /\ k.rune = "G" -> MoveToBottom(l)
           [] k.type = "KeyRune" /\ k.rune \in {"f", "/"} -> ToggleFilterMode(l)
           [] OTHER -> l

\* The part of HandleKey the four list views share (BoardsView,
\* PipelinesView, ReposView, PullRequestsView): the list after the key
ListHandleKey(l, k) ==
    IF IsFilterMode(l)
    THEN CASE k.type \in {"KeyEnter", "KeyEscape"} -> ToggleFilterMode(l)
           [] k.type = "KeyBackspace" ->
                LET q == FilterQuery(l)
                IN  IF Len(q) > 0 THEN SetFilter(l, SubSeq(q, 1, Len(q) - 1))
                    ELSE l
           [] k.type = "KeyRune" ->
                SetFilter(l, FilterQuery(l) \o RuneString(k.rune))
           [] OTHER -> l
    ELSE CASE k.type = "KeyUp" -> MoveUp(l)
           [] k.type = "KeyDown" -> MoveDown(l)
           [] k.type = "KeyRune" /\ k.rune = "j" -> MoveDown(l)
           [] k.type = "KeyRune" /\ k.rune = "k" -> MoveUp(l)
           [] k.type = "KeyRune" /\ k.rune = "g" -> MoveToTop(l)
           [] k.type = "KeyRune" /\ k.rune = "G" -> MoveToBottom(l)
           [] k.type = "KeyRune" /\ k.rune \in {"f", "/"} -> ToggleFilterMode(l)
           [] OTHER -> l

\* The value a list view's HandleKey returns; Enter outside filter mode is
\* a case of BoardsView and PullRequestsView only (selectable)
ListHandled(l, k, selectable) ==
    IF IsFilterMode(l)
    THEN k.type \in {"KeyEnter", "KeyEscape", "KeyBackspace", "KeyRune"}
    ELSE \/ k.type \in {"KeyUp", "KeyDown"}
         \/ selectable /\ k.type = "KeyEnter"
         \/ k.type = "KeyRune" /\ k.rune \in {"j", "k", "g", "G", "f", "/"}

\* a SelectedWorkItem / SelectedPR that takes the first record whatever
\* the selection
SelectedRecordFirst(a, v) == IF Len(a.viewData[v]) > 0 THEN 0 ELSE NoItem

\* BoardsView.SelectedWorkItem / PullRequestsView.SelectedPR: the index into
\* the view's own record slice, or NoItem
SelectedRecord(a, v) ==
    LET idx == SelectedIndex(a.lists[v])
    IN  IF idx >= 0 /\ idx < Len(a.viewData[v]) THEN idx ELSE NoItem

\* BoardsView.HandleKey, with the onSelect callback NewApp installs
BoardsHandleKey(a, k) ==
    IF ~IsFilterMode(a.lists[ViewBoards]) /\ k.type = "KeyEnter"
    THEN LET idx == SelectedRecord(a, ViewBoards)
         IN  IF idx # NoItem
             THEN showWorkItemDetail(a, a.viewData[ViewBoards][idx + 1])
             ELSE a
    ELSE [a EXCEPT !.lists[ViewBoards] = ListHandleKey(a.lists[ViewBoards], k)]

\* PullRequestsView.HandleKey, with the onSelect callback NewApp installs
PullRequestsHandleKey(a, k) ==
    IF ~IsFilterMode(a.lists[ViewPullRequests]) /\ k.type = "KeyEnter"
    THEN LET idx == SelectedRecord(a, ViewPullRequests)
         IN  IF idx # NoItem
             THEN showPRDetail(a, a.viewData[ViewPullRequests][idx + 1])
             ELSE a
    ELSE [a EXCEPT !.lists[ViewPullRequests] =
                       ListHandleKey(a.lists[ViewPullRequests], k)]

\* Input.Backspace: the value without its last byte
InputBackspace(value) ==
    IF Len(value) > 0 THEN SubSeq(value, 1, Len(value) - 1) ELSE value

\* Input.InsertChar
InsertChar(value, c) == value \o RuneString(c)

\* CopilotView.submit: an empty query is dropped; otherwise the query and
\* the agent's answer go to the history and the input is cleared
submit(a) ==
    IF TrimSpace(a.input.value) = <<>> THEN a
    ELSE [a EXCEPT !.history = TRUE, !.input.value = <<>>]

\* CopilotView.HandleKey
CopilotHandleKey(a, k) ==
    CASE k.type = "KeyEnter" -> submit(a)
      [] k.type = "KeyBackspace" ->
           [a EXCEPT !.input.value = InputBackspace(a.input.value)]
      [] k.type = "KeyRune" ->
           [a EXCEPT !.input.value = InsertChar(a.input.value, k.rune)]
      [] OTHER -> a

\* getCurrentView().HandleKey(key): the value it returns
ViewHandled(a, k) ==
    CASE a.currentView = ViewBoards -> ListHandled(a.lists[ViewBoards], k, TRUE)
      [] a.currentView = ViewPullRequests ->
           ListHandled(a.lists[ViewPullRequests], k, TRUE)
      [] a.currentView \in {ViewPipelines, ViewRepos} ->
           ListHandled(a.lists[a.currentView], k, FALSE)
      [] a.currentView = ViewCopilot ->
           k.type \in {"KeyEnter", "KeyBackspace", "KeyRune"}
      [] OTHER -> FALSE

\* getCurrentView().HandleKey(key): the App after it
ViewHandleKey(a, k) ==
    CASE a.currentView = ViewBoards -> BoardsHandleKey(a, k)
      [] a.currentView = ViewPullRequests -> PullRequestsHandleKey(a, k)
      [] a.currentView \in {ViewPipelines, ViewRepos} ->
           [a EXCEPT !.lists[a.currentView] =
                         ListHandleKey(a.lists[a.currentView], k)]
      [] a.currentView = ViewCopilot -> CopilotHandleKey(a, k)
      [] OTHER -> a

\* ------------------------------------------------------------------
\* App.handleInput
\* ------------------------------------------------------------------
\* the first switch of handleInput: interrupt and Escape
EarlyKey(k) == k.type \in {"KeyCtrlC", "KeyEscape"}

\* an Escape that goes back to the previous view from Copilot as well
handleEscapeBack(a) ==
    IF isDetailView(a) \/ a.currentView = ViewCopilot
    THEN [a EXCEPT !.currentView = a.previousView]
    ELSE a

\* the Escape case of handleInput
handleEscape(a) ==
    IF isDetailView(a) THEN [a EXCEPT !.currentView = a.previousView]
    ELSE IF a.currentView = ViewCopilot THEN switchToView(a, ViewDashboard)
    ELSE a

\* the second switch of handleInput: the global shortcuts, reached when the
\* view's handler returned false
handleGlobal(a, k) ==
    CASE k.type = "KeyRune" /\ k.rune \in {"q", "Q"} -> [a EXCEPT !.running = FALSE]
      [] k.type = "KeyRune" /\ k.rune = "1" -> switchToView(a, ViewDashboard)
      [] k.type = "KeyRune" /\ k.rune = "2" -> switchToView(a, ViewBoards)
      [] k.type = "KeyRune" /\ k.rune = "3" -> switchToView(a, ViewPipelines)
      [] k.type = "KeyRune" /\ k.rune = "4" -> switchToView(a, ViewRepos)
      [] k.type = "KeyRune" /\ k.rune = "5" -> switchToView(a, ViewPullRequests)
      [] k.type = "KeyRune" /\ k.rune \in {"/", ":"} -> switchToView(a, ViewCopilot)
      [] k.type = "KeyRune" /\ k.rune \in {"r", "R"} -> setStatus(a, "Refreshing...")
      [] k.type = "KeyRune" /\ k.rune = "b" ->
           IF isDetailView(a) THEN [a EXCEPT !.currentView = a.previousView]
           ELSE a
      [] k.type = "KeyTab" ->
           switchToTabView([a EXCEPT !.tabActive = TabBarNext(a.tabActive)])
      [] OTHER -> a

\* one step of handleInput, as the App's reached field records it: the
\* call of the active view's HandleKey with the key and the value it
\* returned, or the entry into the second switch
Reached(step, k, ret) == [step |-> step, key |-> k, ret |-> ret]

\* "a.getCurrentView().HandleKey(key)": the App after the call
callHandleKey(a, k) ==
    ViewHandleKey([a EXCEPT !.reached =
                       Append(@, Reached("HandleKey", k, ViewHandled(a, k)))], k)

\* the second switch of handleInput is entered
enterShortcuts(a, k) ==
    handleGlobal([a EXCEPT !.reached = Append(@, Reached("shortcuts", k, FALSE))], k)

\* a handleInput without the interrupt case: the key goes the way of
\* the other keys
handleInputNoInterrupt(a, k) ==
    IF k.type = "KeyEscape" THEN handleEscape(a)
    ELSE IF ViewHandled(a, k) THEN callHandleKey(a, k)
    ELSE enterShortcuts(callHandleKey(a, k), k)

\* a handleInput that runs the global shortcuts whatever the view's handler
\* returned
handleInputNoRefusal(a, k) ==
    IF k.type = "KeyCtrlC" THEN [a EXCEPT !.running = FALSE]
    ELSE IF k.type = "KeyEscape" THEN handleEscape(a)
    ELSE enterShortcuts(callHandleKey(a, k), k)

\* a handleInput that offers every key to the active view first and
\* decides interrupt and Escape when the view declined
handleInputViewFirst(a, k) ==
    IF ViewHandled(a, k) THEN callHandleKey(a, k)
    ELSE IF k.type = "KeyCtrlC" THEN [callHandleKey(a, k) EXCEPT !.running = FALSE]
    ELSE IF k.type = "KeyEscape" THEN handleEscape(callHandleKey(a, k))
    ELSE enterShortcuts(callHandleKey(a, k), k)

\* App.handleInput: the App after the key
handleInput(a, k) ==
    IF k.type = "KeyCtrlC" THEN [a EXCEPT !.running = FALSE]
    ELSE IF k.type = "KeyEscape" THEN handleEscape(a)
    ELSE IF ViewHandled(a, k) THEN callHandleKey(a, k)
    ELSE enterShortcuts(callHandleKey(a, k), k)

\* handleInput reaches "go a.refreshData()" for this key
launchesRefresh(a, k) ==
    /\ ~EarlyKey(k)
    /\ ~ViewHandled(a, k)
    /\ k.type = "KeyRune" /\ k.rune \in {"r", "R"}

\* ------------------------------------------------------------------
\* App.refreshData, as the steps of one background task
\* ------------------------------------------------------------------
\* the five fetches, in the order refreshData issues them
FetchOrder == <<"workItems", "builds", "pipelines", "repos", "prs">>

\* a fetch that returned a collection, and one that returned an error
Fetched(recs) == [ok |-> TRUE, val |-> recs]
FetchError == [ok |-> FALSE, val |-> <<>>]

\* a write lock that does not wait for the readers to leave
CanLockDespiteReaders(a) == a.mu.writer = 0

\* a write lock that does not wait for another writer to unlock
CanLockDespiteWriter(a) == a.mu.readers = 0

\* sync.RWMutex: Lock can be taken / RLock can be taken
CanLock(a) == a.mu.writer = 0 /\ a.mu.readers = 0
CanRLock(a) == a.mu.writer = 0

\* "a.loading = true", the statement before the lock is taken
refreshBegin(a) == [a EXCEPT !.loading = TRUE]

\* a.mu.Lock() by task t
refreshLock(a, t) == [a EXCEPT !.mu.writer = t]

\* the body of one "if x, err := fetch(); err == nil { ... }" block of
\* refreshData: the snapshot field and the view's list take the collection
storeFetch(a, f, val) ==
    CASE f = "workItems" ->
           [a EXCEPT !.workItems = val,
                     !.viewData[ViewBoards] = val,
                     !.lists[ViewBoards] =
                         SetItems(@, ListItemsOf(ViewBoards, val))]
      [] f = "builds" -> [a EXCEPT !.builds = val]
      [] f = "pipelines" ->
           [a EXCEPT !.pipelineList = val,
                     !.viewData[ViewPipelines] = val,
                     !.lists[ViewPipelines] =
                         SetItems(@, ListItemsOf(ViewPipelines, val))]
      [] f = "repos" ->
           [a EXCEPT !.repoList = val,
                     !.viewData[ViewRepos] = val,
                     !.lists[ViewRepos] =
                         SetItems(@, ListItemsOf(ViewRepos, val))]
      [] f = "prs" ->
           [a EXCEPT !.prList = val,
                     !.viewData[ViewPullRequests] = val,
                     !.lists[ViewPullRequests] =
                         SetItems(@, ListItemsOf(ViewPullRequests, val))]

\* a refreshData that drops the error test: a failed fetch stores the
\* empty collection it returned
refreshFetchIgnoringErr(a, f, r) == storeFetch(a, f, r.val)

\* one "if x, err := fetch(); err == nil { ... }" block of refreshData
refreshFetch(a, f, r) == IF r.ok THEN storeFetch(a, f, r.val) ELSE a

\* a refreshData that stamps the time without dashboard.SetData(...)
refreshStampWithoutSetData(a, now) == [a EXCEPT !.lastRefresh = now]

\* dashboard.SetData(...) and "a.lastRefresh = time.Now()"
refreshStamp(a, now) ==
    [a EXCEPT !.dashboard = [workItems |-> a.workItems, builds |-> a.builds,
                             prs |-> a.prList],
              !.lastRefresh = now]

\* "a.loading = false" and a.mu.Unlock()
refreshUnlock(a) == [a EXCEPT !.loading = FALSE, !.mu.writer = 0]

\* a refreshData that draws the status bar itself after setting it
refreshStatusDrawing(a) ==
    termPrint(setStatus([a EXCEPT !.statusRefresh = a.lastRefresh],
                        "Data refreshed"), "refresh")

\* statusBar.SetLastRefresh(a.lastRefresh) and setStatus("Data refreshed")
refreshStatus(a) ==
    setStatus([a EXCEPT !.statusRefresh = a.lastRefresh], "Data refreshed")

\* the five snapshot collections of the App
Snapshot(a) ==
    [workItems |-> a.workItems, builds |-> a.builds,
     pipelines |-> a.pipelineList, repos |-> a.repoList, prs |-> a.prList]

\* ------------------------------------------------------------------
\* App.render
\* ------------------------------------------------------------------
\* getCurrentView().Render(contentStart, width, contentHeight) with
\* contentHeight = height - 7: a list view hands the height to its List
viewRender(a) ==
    IF a.currentView \in ListViews
    THEN [a EXCEPT !.lists[a.currentView] = Render(@, a.termHeight - 7)]
    ELSE a

\* a.mu.RLock() and a.mu.RUnlock()
RLock(a) == [a EXCEPT !.mu.readers = @ + 1]
RUnlock(a) == [a EXCEPT !.mu.readers = @ - 1]

\* ------------------------------------------------------------------
\* State
\* ------------------------------------------------------------------
VARIABLES
    list,        \* a components.List on its own (the widget-level runs)
    viewport,    \* the height that List's Render calls are given
    op,          \* the last method called on a widget on its own
    before,      \* that widget before the call
    tabBar,      \* a components.TabBar on its own
    stdin,       \* the bytes waiting on standard input
    out,         \* the text a text function or a text input holds
    screen,      \* what the last frame drew of the refreshes' results
    app,         \* the ui.App with its views, widgets, snapshot and lock
    mainPc,      \* where the main goroutine is in App.Run
    key,         \* the key the current loop iteration read (NoKey: none)
    viewBefore,  \* the current view when that key was dispatched
    tasks,       \* the refreshData goroutines: position and fetch results
    clock        \* time.Now(), as the number of stamps taken so far

vars ==
    <<list, viewport, op, before, tabBar, stdin, out, screen,
      app, mainPc, key, viewBefore, tasks, clock>>

\* the variables of the widget-level runs that the application leaves alone
widgets == <<op, before, tabBar, stdin, out>>

\* those, and the screen, which only the frames and the refreshes touch
aside == <<widgets, screen>>

\* the screen before the first frame: no snapshot drawn (a snapshot is
\* named by the stamp of the refresh that wrote it), no "Last refresh"
\* drawn; fresh tells that a refresh has released the lock or posted its
\* status since ReadKey last returned. The screen is followed in the runs
\* that start with on set, and stays as it is in the others
NoFrame == [on |-> FALSE, snapshot |-> 0, statusRefresh |-> 0, fresh |-> FALSE]

\* the screen after a step that leaves it as drawn
Seen(s, drawn) == IF s.on THEN drawn ELSE s

\* a call of a widget method: its name and its arguments (a query, an
\* index, a tab id), with the number of Next calls in a row ending with
\* it and the active tab that row started from
Call(name) ==
    [name |-> name, query |-> <<>>, index |-> 0, id |-> "", run |-> 0, start |-> 0]

\* no call made yet
NoOp == Call("")

\* no key read in this loop iteration
NoKey == Key("")

\* ReadKey returned an error in this loop iteration (a zero Key and err)
ReadFailed == Key("err")

\* the terminals of the model: term.height, fixed by terminal.New
TermHeights == 11..(10 + MaxHeight)

\* the refreshData goroutines of one run
TaskIds == 1..MaxRefresh

\* a goroutine that "go a.refreshData()" has not started, or that has
\* returned: no locals
NoTask(pc) ==
    [pc |-> pc, pre |-> Snapshot(NewApp(0)), got |-> [f \in {} |-> FetchError]]

\* the collection the data client returns in the model, per fetch, when
\* the fetch succeeds (the snapshot starts with every collection empty)
Collections(f) ==
    CASE f = "workItems" -> { <<Rec("1", <<"a">>), Rec("2", <<"b">>)>> }
      [] f = "builds" -> { <<Rec("7", <<"b">>)>> }
      [] f = "pipelines" -> { <<Rec("3", <<"a">>)>> }
      [] f = "repos" -> { <<Rec("4", <<"r">>)>> }
      [] f = "prs" -> { <<Rec("5", <<"q">>), Rec("6", <<"a">>)>> }

\* what one fetch can return: a collection or an error
FetchResults(f) == { Fetched(c) : c \in Collections(f) } \cup { FetchError }

\* the text typed into the App's buffers (the Copilot input and the four
\* filter queries) is within the model's bound
TextsBounded(a) ==
    Len(a.input.value)
      + Len(a.lists[ViewBoards].filterQuery)
      + Len(a.lists[ViewPipelines].filterQuery)
      + Len(a.lists[ViewRepos].filterQuery)
      + Len(a.lists[ViewPullRequests].filterQuery) <= MaxText

\* ------------------------------------------------------------------
\* "go a.refreshData()"
\* ------------------------------------------------------------------
\* some goroutine of the model is still unused
CanSpawn(ts) == \E t \in TaskIds : ts[t].pc = "idle"

\* a "go a.refreshData()" that is skipped while a refresh is in flight
SpawnUnlessBusy(ts) ==
    IF \E t \in TaskIds : ts[t].pc \notin {"idle", "done"}
    THEN ts
    ELSE LET t == CHOOSE u \in TaskIds :
                      ts[u].pc = "idle" /\ \A w \in TaskIds : ts[w].pc = "idle" => u <= w
         IN  [ts EXCEPT ![t].pc = "start"]

\* the goroutines after "go a.refreshData()"
Spawn(ts) ==
    LET t == CHOOSE u \in TaskIds :
                 ts[u].pc = "idle" /\ \A w \in TaskIds : ts[w].pc = "idle" => u <= w
    IN  [ts EXCEPT ![t].pc = "start"]

\* the position after fetch f
AfterFetch(f) ==
    CASE f = "workItems" -> "builds"
      [] f = "builds" -> "pipelines"
      [] f = "pipelines" -> "repos"
      [] f = "repos" -> "prs"
      [] f = "prs" -> "stamp"

\* ------------------------------------------------------------------
\* The main goroutine: App.Run
\* ------------------------------------------------------------------
\* Run up to the loop: running set, raw mode on, cursor hidden
runStart(a) ==
    setStatus(termPrint([a EXCEPT !.running = TRUE, !.rawMode = TRUE,
                                  !.cursor = FALSE], "main"),
              "Loading...")

\* Run up to the loop when EnableRawMode returns an error (stty fails:
\* the terminal is not interactive): Run drops the error and goes on
runStartNotInteractive(a) == [runStart(a) EXCEPT !.rawMode = FALSE]

\* Run up to the loop, with the first refresh launched
RunStart ==
    /\ mainPc = "start"
    /\ app' = runStart(app)
    /\ tasks' = Spawn(tasks)
    /\ mainPc' = "render"
    /\ UNCHANGED <<aside, list, viewport, key, viewBefore, clock>>

\* Run up to the loop on a terminal that refuses raw mode
RunStartNotInteractive ==
    /\ mainPc = "start"
    /\ app' = runStartNotInteractive(app)
    /\ tasks' = Spawn(tasks)
    /\ mainPc' = "render"
    /\ UNCHANGED <<aside, list, viewport, key, viewBefore, clock>>

\* render up to the test of a.loading: the spinner, or on to the read lock
RenderBegin ==
    /\ mainPc = "render"
    /\ mainPc' = IF app.loading THEN "readKey" ELSE "rlock"
    /\ key' = NoKey
    /\ viewBefore' = ""
    /\ app' = termPrint([app EXCEPT !.hooks = <<>>, !.reached = <<>>], "main")
    /\ screen' = IF app.loading
                 THEN Seen(screen, [screen EXCEPT !.statusRefresh = app.statusRefresh])
                 ELSE screen
    /\ UNCHANGED <<widgets, list, viewport, tasks, clock>>

\* render: a.mu.RLock() returns
RenderLock ==
    /\ mainPc = "rlock"
    /\ CanRLock(app)
    /\ app' = RLock(app)
    /\ mainPc' = "drawing"
    /\ UNCHANGED <<aside, list, viewport, key, viewBefore, tasks, clock>>

\* render: the view is drawn, a.mu.RUnlock()
RenderDraw ==
    /\ mainPc = "drawing"
    /\ app' = termPrint(RUnlock(viewRender(app)), "main")
    /\ mainPc' = "readKey"
    /\ screen' = Seen(screen, [screen EXCEPT !.snapshot = app.lastRefresh,
                                              !.statusRefresh = app.statusRefresh])
    /\ UNCHANGED <<widgets, list, viewport, key, viewBefore, tasks, clock>>

\* ReadKey returns key k and handleInput dispatches it
Dispatch(k) ==
    /\ mainPc = "readKey"
    /\ TextsBounded(handleInput(app, k))
    /\ launchesRefresh(app, k) => CanSpawn(tasks)
    /\ app' = handleInput(app, k)
    /\ tasks' = IF launchesRefresh(app, k) THEN Spawn(tasks) ELSE tasks
    /\ key' = k
    /\ viewBefore' = app.currentView
    /\ mainPc' = IF handleInput(app, k).running THEN "render" ELSE "exit"
    /\ screen' = Seen(screen, [screen EXCEPT !.fresh = FALSE])
    /\ UNCHANGED <<widgets, list, viewport, clock>>

\* a Run that leaves its loop when ReadKey returns an error
ReadKeyErrorStops ==
    /\ mainPc = "readKey"
    /\ mainPc' = "exit"
    /\ key' = ReadFailed
    /\ viewBefore' = app.currentView
    /\ screen' = Seen(screen, [screen EXCEPT !.fresh = FALSE])
    /\ UNCHANGED <<widgets, list, viewport, app, tasks, clock>>

\* ReadKey returns an error: "continue"
ReadKeyError ==
    /\ mainPc = "readKey"
    /\ mainPc' = "render"
    /\ key' = ReadFailed
    /\ viewBefore' = app.currentView
    /\ screen' = Seen(screen, [screen EXCEPT !.fresh = FALSE])
    /\ UNCHANGED <<widgets, list, viewport, app, tasks, clock>>

\* a Run whose return restores neither the cursor nor the input mode
RunExitNoRestore ==
    /\ mainPc = "exit"
    /\ app' = termPrint(app, "main")
    /\ mainPc' = "done"
    /\ UNCHANGED <<aside, list, viewport, key, viewBefore, tasks, clock>>

\* the loop has ended: Clear, then the deferred ShowCursor and
\* DisableRawMode; Run returns and the process exits
RunExit ==
    /\ mainPc = "exit"
    /\ app' = termPrint([app EXCEPT !.cursor = TRUE, !.rawMode = FALSE], "main")
    /\ mainPc' = "done"
    /\ UNCHANGED <<aside, list, viewport, key, viewBefore, tasks, clock>>

\* ------------------------------------------------------------------
\* A refresh goroutine: App.refreshData (it ends with the process)
\* ------------------------------------------------------------------
TaskBegin(t) ==
    /\ mainPc # "done"
    /\ tasks[t].pc = "start"
    /\ app' = refreshBegin(app)
    /\ tasks' = [tasks EXCEPT ![t].pc = "lock"]
    /\ UNCHANGED <<aside, list, viewport, mainPc, key, viewBefore, clock>>

TaskLock(t) ==
    /\ mainPc # "done"
    /\ tasks[t].pc = "lock"
    /\ CanLock(app)
    /\ app' = refreshLock(app, t)
    /\ tasks' = [tasks EXCEPT ![t].pc = "workItems", ![t].pre = Snapshot(app)]
    /\ UNCHANGED <<aside, list, viewport, mainPc, key, viewBefore, clock>>

TaskFetch(t) ==
    /\ mainPc # "done"
    /\ \E f \in DOMAIN Snapshot(app) :
         /\ tasks[t].pc = f
         /\ \E r \in FetchResults(f) :
              /\ app' = refreshFetch(app, f, r)
              /\ tasks' = [tasks EXCEPT ![t].pc = AfterFetch(f),
                                        ![t].got = (f :> r) @@ @]
    /\ UNCHANGED <<aside, list, viewport, mainPc, key, viewBefore, clock>>

TaskStamp(t) ==
    /\ mainPc # "done"
    /\ tasks[t].pc = "stamp"
    /\ app' = refreshStamp(app, clock + 1)
    /\ clock' = clock + 1
    /\ tasks' = [tasks EXCEPT ![t].pc = "unlock"]
    /\ UNCHANGED <<aside, list, viewport, mainPc, key, viewBefore>>

TaskUnlock(t) ==
    /\ mainPc # "done"
    /\ tasks[t].pc = "unlock"
    /\ app' = refreshUnlock(app)
    /\ tasks' = [tasks EXCEPT ![t].pc = "status"]
    /\ screen' = Seen(screen, [screen EXCEPT !.fresh = TRUE])
    /\ UNCHANGED <<widgets, list, viewport, mainPc, key, viewBefore, clock>>

\* a refreshData that has the status bar drawn when it ends
TaskStatusDrawing(t) ==
    /\ mainPc # "done"
    /\ tasks[t].pc = "status"
    /\ app' = refreshStatus(app)
    /\ tasks' = [tasks EXCEPT ![t] = NoTask("done")]
    /\ screen' = Seen(screen, [screen EXCEPT !.fresh = TRUE,
                                              !.statusRefresh = app.lastRefresh])
    /\ UNCHANGED <<widgets, list, viewport, mainPc, key, viewBefore, clock>>

\* refreshData: SetLastRefresh and setStatus("Data refreshed"); it returns
TaskStatus(t) ==
    /\ mainPc # "done"
    /\ tasks[t].pc = "status"
    /\ app' = refreshStatus(app)
    /\ tasks' = [tasks EXCEPT ![t] = NoTask("done")]
    /\ screen' = Seen(screen, [screen EXCEPT !.fresh = TRUE])
    /\ UNCHANGED <<widgets, list, viewport, mainPc, key, viewBefore, clock>>

TaskStep ==
    \E t \in TaskIds :
        \/ TaskBegin(t)
        \/ TaskLock(t)
        \/ TaskFetch(t)
        \/ TaskStamp(t)
        \/ TaskUnlock(t)
        \/ TaskStatus(t)

\* ------------------------------------------------------------------
\* SpecRefresh: the main goroutine and the refresh goroutines together.
\* The keyboard of these runs is r and interrupt, the terminal the tallest.
\* ------------------------------------------------------------------
RefreshKeys == { KeyRune("r"), Key("KeyCtrlC") }

InitRefresh ==
    /\ list = NewList
    /\ op = NoOp
    /\ before = NewList
    /\ tabBar = NewTabBar(Tabs)
    /\ stdin = <<>>
    /\ out = <<>>
    /\ screen = NoFrame
    /\ viewport = 4
    /\ app = NewApp(10 + MaxHeight)
    /\ mainPc = "start"
    /\ key = NoKey
    /\ viewBefore = ""
    /\ tasks = [t \in TaskIds |-> NoTask("idle")]
    /\ clock = 0

NextRefresh ==
    \/ RunStart
    \/ RenderBegin
    \/ RenderLock
    \/ RenderDraw
    \/ \E k \in RefreshKeys : Dispatch(k)
    \/ ReadKeyError
    \/ RunExit
    \/ TaskStep

SpecRefresh == InitRefresh /\ [][NextRefresh]_vars

\* SpecRefresh with the scheduling of the Go runtime: a goroutine that can
\* run its next statement does so, each fetch returns, and a goroutine
\* waiting in a.mu.Lock() gets the lock (sync.RWMutex keeps new readers
\* out while a writer waits, and queues the writers); the main goroutine
\* may wait for a key for ever, but a render that holds the read lock
\* draws and releases it
FairRefresh ==
    /\ SpecRefresh
    /\ WF_vars(RenderDraw)
    /\ \A t \in TaskIds :
         /\ WF_vars(TaskBegin(t))
         /\ SF_vars(TaskLock(t))
         /\ WF_vars(TaskFetch(t))
         /\ WF_vars(TaskStamp(t))
         /\ WF_vars(TaskUnlock(t))
         /\ WF_vars(TaskStatus(t))

\* ------------------------------------------------------------------
\* SpecKeys: the main goroutine alone, from the states the startup refresh
\* leaves.  A refresh that r launches stays at its first statement.
\* ------------------------------------------------------------------
\* the keys ReadKey delivers in these runs
Runes ==
    {"q", "r", "1", "2", "3", "4", "5", "/", ":"}

Keys ==
    { KeyRune(r) : r \in Runes } \cup
    { Key(t) : t \in {"KeyEnter", "KeyEscape", "KeyBackspace", "KeyCtrlC"} }

\* refreshData run from its first statement to its last by task 1, with
\* the five fetches returning res
startupRefresh(a, res) ==
    LET locked == refreshLock(refreshBegin(a), 1)
        f1 == refreshFetch(locked, "workItems", res["workItems"])
        f2 == refreshFetch(f1, "builds", res["builds"])
        f3 == refreshFetch(f2, "pipelines", res["pipelines"])
        f4 == refreshFetch(f3, "repos", res["repos"])
        f5 == refreshFetch(f4, "prs", res["prs"])
    IN  refreshStatus(refreshUnlock(refreshStamp(f5, 1)))

\* the outcomes of the startup refresh these runs start from: the work-item
\* and pull-request fetches succeed or fail, the others succeed
StartupResults ==
    { res \in [DOMAIN Snapshot(NewApp(0)) -> UNION { FetchResults(f) : f \in DOMAIN Snapshot(NewApp(0)) }] :
        /\ \A f \in DOMAIN res : res[f] \in FetchResults(f)
        /\ \A f \in {"builds", "pipelines", "repos"} : res[f].ok }

InitKeys ==
    /\ list = NewList
    /\ op = NoOp
    /\ before = NewList
    /\ tabBar = NewTabBar(Tabs)
    /\ stdin = <<>>
    /\ out = <<>>
    /\ screen = NoFrame
    /\ viewport = 4
    /\ app \in { startupRefresh(runStart(NewApp(10 + MaxHeight)), res) :
                   res \in StartupResults }
    /\ mainPc = "render"
    /\ key = NoKey
    /\ viewBefore = ""
    /\ tasks = [t \in TaskIds |-> IF t = 1 THEN NoTask("done") ELSE NoTask("idle")]
    /\ clock = 1

NextKeys ==
    \/ RenderBegin
    \/ RenderLock
    \/ RenderDraw
    \/ \E k \in Keys : Dispatch(k)
    \/ ReadKeyError
    \/ RunExit

SpecKeys == InitKeys /\ [][NextKeys]_vars

\* ------------------------------------------------------------------
\* SpecNav: the main goroutine alone, as SpecKeys, with the keys that
\* move between the views and within a list; no key is pressed where it
\* would be typed into a text
\* ------------------------------------------------------------------
NavRunes == {"1", "2", "5", ":", "/", "j", "b"}

NavKeys ==
    { KeyRune(r) : r \in NavRunes } \cup
    { Key(t) : t \in {"KeyTab", "KeyEnter", "KeyEscape", "KeyCtrlC"} }

\* the characters held by the Copilot input and the filter queries
TypedLength(a) ==
    Len(a.input.value)
      + Len(a.lists[ViewBoards].filterQuery)
      + Len(a.lists[ViewPipelines].filterQuery)
      + Len(a.lists[ViewRepos].filterQuery)
      + Len(a.lists[ViewPullRequests].filterQuery)

\* ReadKey returns key k, which types nothing, and handleInput
\* dispatches it
NavDispatch(k) ==
    /\ TypedLength(handleInput(app, k)) = 0
    /\ Dispatch(k)

NextNav ==
    \/ RenderBegin
    \/ RenderLock
    \/ RenderDraw
    \/ \E k \in NavKeys : NavDispatch(k)
    \/ ReadKeyError
    \/ RunExit

SpecNav == InitKeys /\ [][NextNav]_vars

\* ------------------------------------------------------------------
\* SpecReload: the main goroutine moving in the Boards list while a
\* refresh launched with r runs, from the states the startup refresh
\* leaves
\* ------------------------------------------------------------------
ReloadKeys == { KeyRune("2"), KeyRune("j"), KeyRune("r") }

NextReload ==
    \/ RenderBegin
    \/ RenderLock
    \/ RenderDraw
    \/ \E k \in ReloadKeys : Dispatch(k)
    \/ ReadKeyError
    \/ TaskStep

SpecReload == InitKeys /\ [][NextReload]_vars

\* ------------------------------------------------------------------
\* SpecRun: Run from its first statement to its return, on a terminal
\* that takes raw mode or refuses it, with the startup refresh; the
\* keyboard has a view switch, the filter / Copilot key, quit and
\* interrupt.  FairRun: the main goroutine is not stopped for ever
\* once its loop has ended.
\* ------------------------------------------------------------------
RunKeys ==
    { KeyRune("2"), KeyRune("/"), KeyRune("q"), Key("KeyCtrlC") }

NextRun ==
    \/ RunStart
    \/ RunStartNotInteractive
    \/ RenderBegin
    \/ RenderLock
    \/ RenderDraw
    \/ \E k \in RunKeys : Dispatch(k)
    \/ ReadKeyError
    \/ RunExit
    \/ TaskStep

SpecRun == InitRefresh /\ [][NextRun]_vars

\* SpecFrames: the runs of SpecRun with the screen followed
InitFrames ==
    /\ list = NewList
    /\ op = NoOp
    /\ before = NewList
    /\ tabBar = NewTabBar(Tabs)
    /\ stdin = <<>>
    /\ out = <<>>
    /\ screen = [NoFrame EXCEPT !.on = TRUE]
    /\ viewport = 4
    /\ app = NewApp(10 + MaxHeight)
    /\ mainPc = "start"
    /\ key = NoKey
    /\ viewBefore = ""
    /\ tasks = [t \in TaskIds |-> NoTask("idle")]
    /\ clock = 0

SpecFrames == InitFrames /\ [][NextRun]_vars

FairRun == SpecRun /\ WF_vars(RunExit)

\* ------------------------------------------------------------------
\* SpecList: one List driven through its methods, drawn in a viewport of a
\* fixed size (the terminal's size is read once, when it is opened)
\* ------------------------------------------------------------------
InitList ==
    /\ list = NewList
    /\ op = NoOp
    /\ before = NewList
    /\ tabBar = NewTabBar(Tabs)
    /\ stdin = <<>>
    /\ out = <<>>
    /\ screen = NoFrame
    /\ viewport \in 4..(3 + MaxHeight)
    /\ app = NewApp(10 + MaxHeight)
    /\ mainPc = "start"
    /\ key = NoKey
    /\ viewBefore = ""
    /\ tasks = [t \in TaskIds |-> NoTask("idle")]
    /\ clock = 0

ListRest == <<aside, viewport, app, mainPc, key, viewBefore, tasks, clock>>

ListSetItems ==
    /\ \E items \in ItemSeqs : list' = SetItems(list, items)
    /\ UNCHANGED ListRest

ListMoveUp == list' = MoveUp(list) /\ UNCHANGED ListRest

ListMoveDown == list' = MoveDown(list) /\ UNCHANGED ListRest

ListMoveToTop == list' = MoveToTop(list) /\ UNCHANGED ListRest

ListMoveToBottom == list' = MoveToBottom(list) /\ UNCHANGED ListRest

ListSetFilter ==
    /\ \E query \in Queries : list' = SetFilter(list, query)
    /\ UNCHANGED ListRest

ListClearFilter == list' = ClearFilter(list) /\ UNCHANGED ListRest

ListToggleFilterMode == list' = ToggleFilterMode(list) /\ UNCHANGED ListRest

ListRender == list' = Render(list, viewport) /\ UNCHANGED ListRest

NextList ==
    \/ ListSetItems
    \/ ListMoveUp
    \/ ListMoveDown
    \/ ListMoveToTop
    \/ ListMoveToBottom
    \/ ListSetFilter
    \/ ListClearFilter
    \/ ListToggleFilterMode
    \/ ListRender

SpecList == InitList /\ [][NextList]_vars

\* ------------------------------------------------------------------
\* Specification SpecCalls: a components.List after its last SetItems,
\* every call on it recorded with the list it was made on
\* ------------------------------------------------------------------
\* the heights a list can have kept from earlier Render calls
KeptHeights == 0..MaxHeight

InitCalls ==
    /\ \E items \in ItemSeqs, h \in KeptHeights, m \in BOOLEAN :
         list = SetItems([NewList EXCEPT !.height = h, !.filterMode = m], items)
    /\ op = NoOp
    /\ before = list
    /\ tabBar = NewTabBar(Tabs)
    /\ stdin = <<>>
    /\ out = <<>>
    /\ screen = NoFrame
    /\ viewport \in 4..(3 + MaxHeight)
    /\ app = NewApp(10 + MaxHeight)
    /\ mainPc = "start"
    /\ key = NoKey
    /\ viewBefore = ""
    /\ tasks = [t \in TaskIds |-> NoTask("idle")]
    /\ clock = 0

CallsRest == <<screen, tabBar, stdin, out, viewport, app, mainPc, key, viewBefore, tasks, clock>>

CallMoveUp ==
    /\ list' = MoveUp(list)
    /\ op' = Call("MoveUp")
    /\ before' = list
    /\ UNCHANGED CallsRest

CallMoveDown ==
    /\ list' = MoveDown(list)
    /\ op' = Call("MoveDown")
    /\ before' = list
    /\ UNCHANGED CallsRest

CallMoveToTop ==
    /\ list' = MoveToTop(list)
    /\ op' = Call("MoveToTop")
    /\ before' = list
    /\ UNCHANGED CallsRest

CallMoveToBottom ==
    /\ list' = MoveToBottom(list)
    /\ op' = Call("MoveToBottom")
    /\ before' = list
    /\ UNCHANGED CallsRest

CallSetFilter ==
    \E query \in Queries :
        /\ list' = SetFilter(list, query)
        /\ op' = [Call("SetFilter") EXCEPT !.query = query]
        /\ before' = list
        /\ UNCHANGED CallsRest

CallClearFilter ==
    /\ list' = ClearFilter(list)
    /\ op' = Call("ClearFilter")
    /\ before' = list
    /\ UNCHANGED CallsRest

CallToggleFilterMode ==
    /\ list' = ToggleFilterMode(list)
    /\ op' = Call("ToggleFilterMode")
    /\ before' = list
    /\ UNCHANGED CallsRest

CallRender ==
    /\ list' = Render(list, viewport)
    /\ op' = Call("Render")
    /\ before' = list
    /\ UNCHANGED CallsRest

NextCalls ==
    \/ CallMoveUp
    \/ CallMoveDown
    \/ CallMoveToTop
    \/ CallMoveToBottom
    \/ CallSetFilter
    \/ CallClearFilter
    \/ CallToggleFilterMode
    \/ CallRender

SpecCalls == InitCalls /\ [][NextCalls]_vars

\* ------------------------------------------------------------------
\* Specification SpecTabBar: a components.TabBar on its own, every call
\* on it recorded with the tab bar it was made on
\* ------------------------------------------------------------------
\* the ids tabs are built with, and the ids SetActiveByID is asked for
BuiltTabIDs == {"dashboard", "boards"}
AskedTabIDs == BuiltTabIDs \cup {"copilot"}

\* the tab bars NewTabBar is asked for: at least one tab
TabSeqs == SeqsUpTo(BuiltTabIDs, MaxTabs) \ {<<>>}

InitTabBar ==
    /\ list = NewList
    /\ op = NoOp
    /\ \E tabs \in TabSeqs : tabBar = NewTabBar(tabs)
    /\ before = tabBar
    /\ stdin = <<>>
    /\ out = <<>>
    /\ screen = NoFrame
    /\ viewport = 4
    /\ app = NewApp(10 + MaxHeight)
    /\ mainPc = "start"
    /\ key = NoKey
    /\ viewBefore = ""
    /\ tasks = [t \in TaskIds |-> NoTask("idle")]
    /\ clock = 0

TabBarRest == <<screen, list, stdin, out, viewport, app, mainPc, key, viewBefore, tasks, clock>>

TabSetActive ==
    \E index \in -1..(MaxTabs + 1) :
        /\ tabBar' = SetActive(tabBar, index)
        /\ op' = [Call("SetActive") EXCEPT !.index = index]
        /\ before' = tabBar
        /\ UNCHANGED TabBarRest

TabSetActiveByID ==
    \E id \in AskedTabIDs :
        /\ tabBar' = SetActiveByIDOf(tabBar, id)
        /\ op' = [Call("SetActiveByID") EXCEPT !.id = id]
        /\ before' = tabBar
        /\ UNCHANGED TabBarRest

\* Next, counted within a row of Next calls (rows of up to MaxTabs + 1)
TabNext ==
    /\ op.run <= MaxTabs
    /\ tabBar' = NextOf(tabBar)
    /\ op' = [Call("Next") EXCEPT
                 !.run = IF op.name = "Next" THEN op.run + 1 ELSE 1,
                 !.start = IF op.name = "Next" THEN op.start ELSE tabBar.active]
    /\ before' = tabBar
    /\ UNCHANGED TabBarRest

NextTabBar ==
    \/ TabSetActive
    \/ TabSetActiveByID
    \/ TabNext

SpecTabBar == InitTabBar /\ [][NextTabBar]_vars

\* ------------------------------------------------------------------
\* Specification SpecReadKey: ReadKey calls on the bytes that wait on
\* standard input, each decoding what one Read returns
\* ------------------------------------------------------------------
InitReadKey ==
    /\ list = NewList
    /\ op = NoOp
    /\ tabBar = NewTabBar(Tabs)
    /\ before = <<>>
    /\ stdin \in SeqsUpTo(Bytes, MaxPending)
    /\ out = <<>>
    /\ screen = NoFrame
    /\ viewport = 4
    /\ app = NewApp(10 + MaxHeight)
    /\ mainPc = "start"
    /\ key = NoKey
    /\ viewBefore = ""
    /\ tasks = [t \in TaskIds |-> NoTask("idle")]
    /\ clock = 0

ReadKeyRest == <<screen, list, tabBar, out, viewport, app, mainPc, viewBefore, tasks, clock>>

\* one ReadKey call: Read returns between 1 and len(buf) of the waiting
\* bytes, and the call returns the key decoded from them
ReadKeyCall ==
    /\ Len(stdin) > 0
    /\ \E n \in 1..BufSize :
         /\ n <= Len(stdin)
         /\ key' = ReadKey(SubSeq(stdin, 1, n))
         /\ stdin' = SubSeq(stdin, n + 1, Len(stdin))
         /\ op' = [Call("ReadKey") EXCEPT !.index = n]
         /\ before' = stdin
    /\ UNCHANGED ReadKeyRest

NextReadKey == ReadKeyCall

SpecReadKey == InitReadKey /\ [][NextReadKey]_vars

\* ------------------------------------------------------------------
\* Specification SpecText: the text functions Truncate and Pad, called
\* on texts and widths drawn from bounded sets
\* ------------------------------------------------------------------
\* the longest text handed to a text function
MaxTextLen == 5

\* the largest width handed to a text function
MaxWidth == 5

\* the characters of the texts: a letter, a space and a dot
TextChars == {"a", " ", "."}

\* strings.Repeat(" ", n)
Spaces(n) == [i \in 1..n |-> " "]

\* Truncate that cuts every long text to an ellipsis form
TruncateAlwaysEllipsis(s, max) ==
    IF Len(s) <= max
    THEN s
    ELSE SubSeq(s, 1, max - 3) \o <<".", ".", ".">>

\* Truncate
Truncate(s, max) ==
    IF Len(s) <= max
    THEN s
    ELSE IF max <= 3
         THEN SubSeq(s, 1, max)
         ELSE SubSeq(s, 1, max - 3) \o <<".", ".", ".">>

\* Pad
Pad(s, width) ==
    IF Len(s) >= width
    THEN SubSeq(s, 1, width)
    ELSE s \o Spaces(width - Len(s))

InitText ==
    /\ list = NewList
    /\ op = NoOp
    /\ tabBar = NewTabBar(Tabs)
    /\ before \in [text : SeqsUpTo(TextChars, MaxTextLen), n : 0..MaxWidth]
    /\ stdin = <<>>
    /\ out = <<>>
    /\ screen = NoFrame
    /\ viewport = 4
    /\ app = NewApp(10 + MaxHeight)
    /\ mainPc = "start"
    /\ key = NoKey
    /\ viewBefore = ""
    /\ tasks = [t \in TaskIds |-> NoTask("idle")]
    /\ clock = 0

TextRest ==
    <<screen, list, tabBar, stdin, before, viewport, app, mainPc, key, viewBefore, tasks, clock>>

\* one call of Truncate(text, n)
CallTruncate ==
    /\ out' = Truncate(before.text, before.n)
    /\ op' = Call("Truncate")
    /\ UNCHANGED TextRest

\* one call of Pad(text, n)
CallPad ==
    /\ out' = Pad(before.text, before.n)
    /\ op' = Call("Pad")
    /\ UNCHANGED TextRest

NextText == CallTruncate \/ CallPad

SpecText == InitText /\ [][NextText]_vars

\* ------------------------------------------------------------------
\* Specification SpecInput: a text input and a list in filter mode, both
\* receiving the characters the key decoder delivers and Backspace
\* ------------------------------------------------------------------
\* the number of bytes a buffer holds before another character is typed
MaxBuffer == 2

InitInput ==
    /\ list = ToggleFilterMode(SetItems(NewList, << <<"a", "b">>, <<"A">> >>))
    /\ op = NoOp
    /\ tabBar = NewTabBar(Tabs)
    /\ before = [value |-> <<>>, query |-> <<>>]
    /\ stdin = <<>>
    /\ out = <<>>
    /\ screen = NoFrame
    /\ viewport = 4
    /\ app = NewApp(10 + MaxHeight)
    /\ mainPc = "start"
    /\ key = NoKey
    /\ viewBefore = ""
    /\ tasks = [t \in TaskIds |-> NoTask("idle")]
    /\ clock = 0

InputRest == <<screen, tabBar, stdin, viewport, app, mainPc, viewBefore, tasks, clock>>

\* a character key decoded from one byte reaches Input.InsertChar and the
\* list's filter query
InputType ==
    /\ Len(out) < MaxBuffer
    /\ \E b \in Bytes :
         /\ ReadKey(<<b>>).type = "KeyRune"
         /\ key' = ReadKey(<<b>>)
         /\ out' = InsertChar(out, ReadKey(<<b>>).rune)
         /\ list' = ListHandleKey(list, ReadKey(<<b>>))
    /\ op' = Call("InsertChar")
    /\ before' = [value |-> out, query |-> FilterQuery(list)]
    /\ UNCHANGED InputRest

\* Backspace reaches Input.Backspace and the list's filter query; run is 1
\* when it follows a typed character at once, and before then keeps the
\* values from before that character
InputErase ==
    /\ key' = Key("KeyBackspace")
    /\ out' = InputBackspace(out)
    /\ list' = ListHandleKey(list, Key("KeyBackspace"))
    /\ op' = [Call("Backspace") EXCEPT
                !.run = IF op.name = "InsertChar" THEN 1 ELSE 0]
    /\ before' = IF op.name = "InsertChar" THEN before
                 ELSE [value |-> out, query |-> FilterQuery(list)]
    /\ UNCHANGED InputRest

NextInput == InputType \/ InputErase

SpecInput == InitInput /\ [][NextInput]_vars

\* ------------------------------------------------------------------
\* Specification SpecViewKeys: the List of one list view, receiving the
\* keys the view's HandleKey handles, and drawn between them
\* ------------------------------------------------------------------
\* the keys of these runs: moves, the filter toggle, characters (one of
\* them above the ASCII range), Backspace and Escape
HandledKeys ==
    { KeyRune(r) : r \in {"j", "G", "/", "a", "B", "U+00C3"} } \cup
    { Key(t) : t \in {"KeyBackspace", "KeyEscape"} }

InitViewKeys ==
    /\ \E items \in ItemSeqs : list = SetItems(NewList, items)
    /\ op = NoOp
    /\ before = NewList
    /\ tabBar = NewTabBar(Tabs)
    /\ stdin = <<>>
    /\ out = <<>>
    /\ screen = NoFrame
    /\ viewport \in 4..(3 + MaxHeight)
    /\ app = NewApp(10 + MaxHeight)
    /\ mainPc = "start"
    /\ key = NoKey
    /\ viewBefore = ""
    /\ tasks = [t \in TaskIds |-> NoTask("idle")]
    /\ clock = 0

ViewKeysRest ==
    <<screen, tabBar, stdin, out, viewport, app, mainPc, viewBefore, tasks, clock>>

\* the view's HandleKey with key k, on its List
ViewKey(k) ==
    /\ Len(ListHandleKey(list, k).filterQuery) <= MaxQuery
    /\ list' = ListHandleKey(list, k)
    /\ before' = list
    /\ key' = k
    /\ op' = Call("HandleKey")
    /\ UNCHANGED ViewKeysRest

\* the view's Render, which hands the height to its List
ViewRender ==
    /\ list' = Render(list, viewport)
    /\ before' = list
    /\ key' = NoKey
    /\ op' = Call("Render")
    /\ UNCHANGED ViewKeysRest

NextViewKeys == (\E k \in HandledKeys : ViewKey(k)) \/ ViewRender

SpecViewKeys == InitViewKeys /\ [][NextViewKeys]_vars

\* ------------------------------------------------------------------
\* Specification SpecRace: the List of the boards view while the main
\* goroutine runs MoveDown or MoveToBottom from HandleKey (handleInput
\* takes no lock) and a refresh goroutine runs SetWorkItems; the two run
\* statement by statement in any order
\* ------------------------------------------------------------------
\* the work items a fetch returns in these runs: up to MaxItems records
RaceRecords == SeqsUpTo({Rec("1", <<"a">>)}, MaxItems)

\* the list after n MoveDown calls
RECURSIVE MovedDown(_, _)
MovedDown(l, n) == IF n = 0 THEN l ELSE MoveDown(MovedDown(l, n - 1))

\* a drawn list of some work items with the selection moved down, a key
\* about to be read, and a refresh that has fetched new work items
InitRace ==
    /\ \E old \in RaceRecords, h \in 1..MaxHeight, n \in 0..MaxItems :
         list = MovedDown(Render(SetItems(NewList, ListItemsOf(ViewBoards, old)),
                                 h + 3), n)
    /\ op = NoOp
    /\ before = NewList
    /\ tabBar = NewTabBar(Tabs)
    /\ stdin = <<>>
    /\ out = <<>>
    /\ screen = NoFrame
    /\ viewport = 4
    /\ app = NewApp(10 + MaxHeight)
    /\ mainPc = "readKey"
    /\ key = NoKey
    /\ viewBefore = ""
    /\ \E new \in RaceRecords :
         tasks = [t \in TaskIds |->
                    IF t = 1
                    THEN [NoTask("workItems") EXCEPT
                            !.got = ("workItems" :> Fetched(new))]
                    ELSE NoTask("idle")]
    /\ clock = 0

RaceRest == <<before, tabBar, stdin, out, screen, viewport, app, viewBefore, clock>>

\* MoveDown, its test: "if l.selected < len(l.activeIndices())-1"
RaceMoveDownTest ==
    /\ mainPc = "readKey"
    /\ key' = KeyRune("j")
    /\ op' = Call("MoveDown")
    /\ mainPc' = IF list.selected < Len(activeIndices(list)) - 1
                 THEN "increment" ELSE "render"
    /\ UNCHANGED <<list, tasks, RaceRest>>

\* MoveDown: "l.selected++"
RaceMoveDownIncrement ==
    /\ mainPc = "increment"
    /\ list' = [list EXCEPT !.selected = @ + 1]
    /\ mainPc' = "adjustScroll"
    /\ UNCHANGED <<op, key, tasks, RaceRest>>

\* MoveToBottom: "indices := l.activeIndices()"
RaceMoveToBottomRead ==
    /\ mainPc = "readKey"
    /\ key' = KeyRune("G")
    /\ op' = [Call("MoveToBottom") EXCEPT !.index = Len(activeIndices(list))]
    /\ mainPc' = "bottom"
    /\ UNCHANGED <<list, tasks, RaceRest>>

\* MoveToBottom: "if len(indices) > 0 { l.selected = len(indices) - 1"
RaceMoveToBottomSet ==
    /\ mainPc = "bottom"
    /\ list' = IF op.index > 0 THEN [list EXCEPT !.selected = op.index - 1]
               ELSE list
    /\ mainPc' = IF op.index > 0 THEN "adjustScroll" ELSE "render"
    /\ UNCHANGED <<op, key, tasks, RaceRest>>

\* the adjustScroll call that ends MoveDown and MoveToBottom
RaceAdjustScroll ==
    /\ mainPc = "adjustScroll"
    /\ list' = adjustScroll(list)
    /\ mainPc' = "render"
    /\ UNCHANGED <<op, key, tasks, RaceRest>>

\* SetWorkItems, List.SetItems: "l.items = items"
RaceSetItems ==
    /\ tasks[1].pc = "workItems"
    /\ list' = [list EXCEPT !.items =
                   ListItemsOf(ViewBoards, tasks[1].got["workItems"].val)]
    /\ tasks' = [tasks EXCEPT ![1].pc = "clearFilter"]
    /\ UNCHANGED <<op, key, mainPc, RaceRest>>

\* List.SetItems: "l.ClearFilter()"; SetWorkItems returns
RaceClearFilter ==
    /\ tasks[1].pc = "clearFilter"
    /\ list' = ClearFilter(list)
    /\ tasks' = [tasks EXCEPT ![1].pc = "builds"]
    /\ UNCHANGED <<op, key, mainPc, RaceRest>>

NextRace ==
    \/ RaceMoveDownTest
    \/ RaceMoveDownIncrement
    \/ RaceMoveToBottomRead
    \/ RaceMoveToBottomSet
    \/ RaceAdjustScroll
    \/ RaceSetItems
    \/ RaceClearFilter

SpecRace == InitRace /\ [][NextRace]_vars

\* the larger of two integers
Max(a, b) == IF a >= b THEN a ELSE b

\* the indices of the items whose label contains the query, ignoring case,
\* in their order in the list
Matching(l) ==
    LET all == [i \in 1..Len(l.items) |-> i - 1]
        hit(i) == Contains(ToLower(l.items[i + 1]), ToLower(l.filterQuery))
    IN  SelectSeq(all, hit)

\* the sequence a list works on by the specification: the matching items
\* when a filter is applied, otherwise all of them
ActiveSequence(l) ==
    IF l.filterQuery # <<>> THEN Matching(l)
    ELSE [i \in 1..Len(l.items) |-> i - 1]

\* C1: a list drawn in a viewport of H rows keeps its scroll offset within
\* 0..max(0, N-H) and its selection within the window scroll..scroll+H-1,
\* whatever moves were made on it.
C1_ScrollWindow ==
    list.height >= 1 =>
        /\ 0 <= list.scroll
        /\ list.scroll <= Max(0, Len(activeIndices(list)) - list.height)
        /\ list.scroll <= list.selected
        /\ list.selected < list.scroll + list.height

\* C2: the selection is a valid index into the active sequence whenever
\* that sequence has an item, and SelectedItem returns none exactly when
\* the active sequence is empty.
C2_SelectionValid ==
    /\ Len(ActiveSequence(list)) > 0 =>
         list.selected >= 0 /\ list.selected < Len(ActiveSequence(list))
    /\ SelectedItem(list) = NoItem <=> Len(ActiveSequence(list)) = 0

\* C10: under a non-empty filter query the sequence the list works on is
\* exactly the items whose label contains the query, ignoring case, in
\* their original order.
C10_FilterExact ==
    list.filterQuery # <<>> => activeIndices(list) = Matching(list)

\* ------------------------------------------------------------------
\* The refresh task and the lock (SpecRefresh)
\* ------------------------------------------------------------------
\* the positions of refreshData between a.mu.Lock() and a.mu.Unlock()
LockedPcs == {"workItems", "builds", "pipelines", "repos", "prs", "stamp", "unlock"}

\* task t has made its five fetches and stamped the time: every field
\* whose fetch failed has the value it had when the task took the lock,
\* every other field has the fetched value, and lastRefresh is the stamp
C3_Fields(t) ==
    /\ \A f \in DOMAIN Snapshot(app) :
         Snapshot(app)[f] = IF tasks[t].got[f].ok THEN tasks[t].got[f].val
                            ELSE tasks[t].pre[f]
    /\ app.lastRefresh = clock
    /\ clock >= 1

\* the last statement of task t posts "Data refreshed"
C3_StatusStep(t) ==
    tasks[t].pc = "status" /\ tasks'[t].pc = "done" =>
        app'.message = "Data refreshed"

\* C3: whichever of the five fetches fail, a refresh leaves each failed
\* field at its pre-refresh value and each fetched field at the fetched
\* value, stamps the refresh time, and ends by posting "Data refreshed".
C3_RefreshOutcome ==
    /\ [](\A t \in TaskIds : tasks[t].pc = "unlock" => C3_Fields(t))
    /\ [][\A t \in TaskIds : C3_StatusStep(t)]_vars

\* a second refresh is about to release the lock after a fetch failed on a
\* field the first refresh had filled, and another fetch succeeded
C3_Witness ==
    \E t \in TaskIds :
        /\ tasks[t].pc = "unlock"
        /\ \E f \in DOMAIN tasks[t].got :
             ~tasks[t].got[f].ok /\ tasks[t].pre[f] # <<>>
        /\ \E g \in DOMAIN tasks[t].got :
             tasks[t].got[g].ok /\ tasks[t].pre[g] = <<>>

\* C4: while the main goroutine draws the current view, no refresh task is
\* between taking and releasing the write lock.
C4_NoWriterWhileDrawing ==
    mainPc = "drawing" =>
        /\ app.mu.writer = 0
        /\ \A t \in TaskIds : tasks[t].pc \notin LockedPcs

\* the main goroutine draws while a refresh task waits for the write lock
C4_Witness ==
    /\ mainPc = "drawing"
    /\ \E t \in TaskIds : tasks[t].pc = "lock"

\* ------------------------------------------------------------------
\* Key dispatch (SpecKeys).  A step that reads key k is one from
\* mainPc = "readKey" with key' = k.
\* ------------------------------------------------------------------
\* the current view is a list view whose list is in filter mode
InFilterMode(a) ==
    a.currentView \in ListViews /\ IsFilterMode(a.lists[a.currentView])

\* C5: Escape in the Copilot view makes Dashboard current, whatever view
\* Copilot was entered from.
C5_EscapeFromCopilot ==
    key = Key("KeyEscape") /\ viewBefore = ViewCopilot =>
        app.currentView = ViewDashboard

\* Escape has just left a Copilot view that was entered from Boards
C5_Witness ==
    /\ key = Key("KeyEscape")
    /\ viewBefore = ViewCopilot
    /\ app.currentView = ViewDashboard
    /\ app.previousView = ViewCopilot
    /\ app.lists[ViewBoards].height > 0
    /\ app.tabActive = 0

\* in a detail view the previous view is the list view it was opened from
C6_PreviousIsOpener ==
    /\ app.currentView = ViewWorkItemDetail => app.previousView = ViewBoards
    /\ app.currentView = ViewPRDetail => app.previousView = ViewPullRequests

\* what a step that reads Escape does
C6_EscapeStep ==
    mainPc = "readKey" /\ key' = Key("KeyEscape") =>
        /\ app.currentView = ViewWorkItemDetail => app'.currentView = ViewBoards
        /\ app.currentView = ViewPRDetail => app'.currentView = ViewPullRequests
        /\ ~isDetailView(app) /\ app.currentView # ViewCopilot => app' = app

ViewOfKey(r) ==
    CASE r = "1" -> ViewDashboard
      [] r = "2" -> ViewBoards
      [] r = "3" -> ViewPipelines
      [] r = "4" -> ViewRepos
      [] r = "5" -> ViewPullRequests
      [] r \in {"/", ":"} -> ViewCopilot

ViewKeys == {"1", "2", "3", "4", "5", "/", ":"}

EditedText(a) ==
    IF a.currentView = ViewCopilot THEN a.input.value
    ELSE a.lists[a.currentView].filterQuery

\* C8: in the Copilot view, and in a list view in filter mode, q and r are
\* typed into the text: the main loop keeps running and no refresh is
\* launched.
C8_ShortcutsAfterView ==
    [][ \A r \in {"q", "r"} :
          /\ mainPc = "readKey"
          /\ key' = KeyRune(r)
          /\ app.currentView = ViewCopilot \/ InFilterMode(app)
          => /\ EditedText(app') = Append(EditedText(app), r)
             /\ app'.running
             /\ app'.currentView = app.currentView
             /\ app'.message = app.message
             /\ tasks' = tasks
             /\ mainPc' = "render" ]_vars

\* r has just been typed into the filter of the Boards view
C8_Witness ==
    /\ key = KeyRune("r")
    /\ viewBefore = ViewBoards
    /\ app.currentView = ViewBoards
    /\ app.lists[ViewBoards].filterMode
    /\ app.lists[ViewBoards].filterQuery = <<"r">>
    /\ app.running

\* C9: in a list view in filter mode, Escape leaves filter mode and clears
\* the query, and Enter leaves filter mode without opening anything.
C9_FilterTakesEscape ==
    [][ /\ mainPc = "readKey"
        /\ InFilterMode(app)
        /\ key' \in {Key("KeyEscape"), Key("KeyEnter")}
        => /\ app'.currentView = app.currentView
           /\ ~app'.lists[app.currentView].filterMode
           /\ app'.lists[app.currentView].filterQuery = <<>>
           /\ app'.lists[app.currentView].filtered = <<>> ]_vars

\* ------------------------------------------------------------------
\* Claims on the calls of a list (SpecCalls)
\* ------------------------------------------------------------------
\* the indices 0..len(items)-1 of a list
AllIndices(l) == [i \in 1..Len(l.items) |-> i - 1]

\* C11: SetFilter with a non-empty query leaves selection 0 and scroll 0,
\* and when the list already held that query (the same SetFilter was the
\* last filter call, whatever moves came between) the filtered index
\* subsequence is the one it had.
C11_SameFilterTwice ==
    (op.name = "SetFilter" /\ op.query # <<>>) =>
        /\ list.selected = 0
        /\ list.scroll = 0
        /\ before.filterQuery = op.query =>
             /\ list.filtered = before.filtered
             /\ activeIndices(list) = activeIndices(before)

\* the second SetFilter of a query with two hits, after the selection
\* was moved off the first hit
C11_Witness ==
    /\ op.name = "SetFilter"
    /\ op.query # <<>>
    /\ before.filterQuery = op.query
    /\ before.selected > 0
    /\ Len(list.filtered) > 1

\* C12: ToggleFilterMode called in filter mode leaves an empty query, no
\* filtered index, all items active, selection 0 and scroll 0; called
\* outside filter mode it changes neither the query nor the selection.
C12_ToggleFilterMode ==
    op.name = "ToggleFilterMode" =>
        IF before.filterMode
        THEN /\ ~list.filterMode
             /\ list.filterQuery = <<>>
             /\ list.filtered = <<>>
             /\ activeIndices(list) = AllIndices(list)
             /\ list.selected = 0
             /\ list.scroll = 0
        ELSE /\ list.filterMode
             /\ list.filterQuery = before.filterQuery
             /\ list.selected = before.selected

\* filter mode left from a filtered list with a moved selection and a
\* scrolled window
C12_Witness ==
    /\ op.name = "ToggleFilterMode"
    /\ before.filterMode
    /\ Len(before.filtered) > 0
    /\ Len(before.filtered) < Len(before.items)
    /\ before.selected > 0
    /\ before.scroll > 0

\* C17: in a viewport of H >= 1 rows, MoveUp, MoveDown and MoveToBottom
\* leave the scroll offset alone when the new selection is in
\* scroll..scroll+H-1, make it the selection when the selection precedes
\* the window, and selection-H+1 when the selection is at or beyond
\* scroll+H.
C17_ScrollFollowsMove ==
    (op.name \in {"MoveUp", "MoveDown", "MoveToBottom"} /\ before.height >= 1) =>
        list.scroll =
            IF list.selected < before.scroll THEN list.selected
            ELSE IF list.selected >= before.scroll + before.height
                 THEN list.selected - before.height + 1
                 ELSE before.scroll

\* ------------------------------------------------------------------
\* Claims on the calls of a tab bar (SpecTabBar)
\* ------------------------------------------------------------------
\* C14: on a tab bar of N >= 1 tabs, N Next calls in a row bring the
\* active tab back to where the row started and Next on the last tab
\* makes the first tab active; SetActive with an index outside 0..N-1
\* and SetActiveByID with an id no tab has leave the tab bar as it was.
C14_TabBarCycle ==
    /\ (op.name = "Next" /\ op.run = Len(tabBar.tabs)) =>
          tabBar.active = op.start
    /\ (op.name = "Next" /\ before.active = Len(before.tabs) - 1) =>
          tabBar.active = 0
    /\ (op.name = "SetActive"
          /\ (op.index < 0 \/ op.index >= Len(before.tabs))) =>
          tabBar = before
    /\ (op.name = "SetActiveByID"
          /\ \A i \in 1..Len(before.tabs) : before.tabs[i] # op.id) =>
          tabBar = before

\* N Next calls in a row on a tab bar of several tabs, started from a
\* tab that is not the first, the last of them on the tab it ends on
C14_Witness ==
    /\ op.name = "Next"
    /\ Len(tabBar.tabs) > 1
    /\ op.run = Len(tabBar.tabs)
    /\ op.start > 0
    /\ tabBar.active = op.start

\* ------------------------------------------------------------------
\* Claims on key decoding (SpecReadKey)
\* ------------------------------------------------------------------
\* the reference table: the key types of the single control bytes and
\* of the arrow sequences
SingleByteKeys ==
    (3 :> "KeyCtrlC") @@ (9 :> "KeyTab") @@ (13 :> "KeyEnter")
      @@ (27 :> "KeyEscape") @@ (127 :> "KeyBackspace")

ArrowKeys ==
    (<<27, 91, 65>> :> "KeyUp") @@ (<<27, 91, 66>> :> "KeyDown")
      @@ (<<27, 91, 67>> :> "KeyRight") @@ (<<27, 91, 68>> :> "KeyLeft")

\* the bytes the last ReadKey call read
BytesRead == SubSeq(before, 1, op.index)

\* C13: a read of 1 to 3 bytes decodes as the reference table says: a
\* single byte 3, 9, 13, 27, 127 is interrupt, Tab, Enter, Escape,
\* Backspace; 27 '[' followed by A, B, C, D is Up, Down, Right, Left;
\* every other read is the printable-character key of its first byte.
C13_DecodingTable ==
    op.name = "ReadKey" =>
        /\ Len(BytesRead) \in 1..3
        /\ key = IF Len(BytesRead) = 1 /\ BytesRead[1] \in DOMAIN SingleByteKeys
                 THEN Key(SingleByteKeys[BytesRead[1]])
                 ELSE IF BytesRead \in DOMAIN ArrowKeys
                      THEN Key(ArrowKeys[BytesRead])
                      ELSE KeyRune(Chr(BytesRead[1]))

\* a read of three bytes that start like an arrow sequence and are none
\* came out as the character of the escape byte
C13_Witness ==
    /\ op.name = "ReadKey"
    /\ BytesRead = <<27, 91, 69>>
    /\ key = KeyRune(Chr(27))

\* ------------------------------------------------------------------
\* Claims on the navigation between views (SpecNav)
\* ------------------------------------------------------------------
\* the six top-level views in tab-bar order
TopLevel ==
    <<ViewDashboard, ViewBoards, ViewPipelines, ViewRepos,
      ViewPullRequests, ViewCopilot>>

IsTopLevel(v) == \E i \in 1..Len(TopLevel) : TopLevel[i] = v

\* the top-level view after v in tab-bar order, Dashboard after Copilot
Successor(v) ==
    LET i == CHOOSE j \in 1..Len(TopLevel) : TopLevel[j] = v
    IN  TopLevel[(i % Len(TopLevel)) + 1]

\* the active tab is the tab of the current view when that view is a
\* top-level view
C15_TabIsView ==
    IsTopLevel(app.currentView) =>
        /\ app.tabActive \in 0..(Len(TopLevel) - 1)
        /\ TopLevel[app.tabActive + 1] = app.currentView

\* a Tab key that the view's handler declines makes the view after the
\* active tab current, which is the view after the current one when
\* the current one is a top-level view
C15_TabStep ==
    (mainPc = "readKey" /\ key' = Key("KeyTab")
       /\ ~ViewHandled(app, Key("KeyTab"))) =>
        /\ app'.currentView = Successor(TopLevel[app.tabActive + 1])
        /\ IsTopLevel(app.currentView) =>
             app'.currentView = Successor(app.currentView)

\* C15: each Tab key that reaches the global handler moves to the next
\* of the six top-level views in tab-bar order, Dashboard after Copilot,
\* and at all times the active tab is the tab of the current view when
\* the current view is a top-level view.
C15_TabCycles == []C15_TabIsView /\ [][C15_TabStep]_vars

\* Tab pressed in Copilot has made Dashboard current and its tab active
C15_Witness ==
    /\ key = Key("KeyTab")
    /\ viewBefore = ViewCopilot
    /\ app.currentView = ViewDashboard
    /\ app.tabActive = 0

\* C16: a key that changes the current view from A to B has A's exit
\* hook and then B's enter hook called, in that order and nothing else,
\* by the time the next render starts; a key that leaves the current
\* view as it is has no hook called.
C16_HooksOnChange ==
    key # NoKey =>
        IF app.currentView # viewBefore
        THEN app.hooks = << HookCall("OnExit", viewBefore),
                            HookCall("OnEnter", app.currentView) >>
        ELSE app.hooks = <<>>

\* the detail view of a list view whose items can be opened
DetailOf(v) == IF v = ViewBoards THEN ViewWorkItemDetail ELSE ViewPRDetail

\* the record a detail view shows
ShownBy(a, v) == IF v = ViewBoards THEN a.workItemDetail ELSE a.prDetail

\* Enter pressed in Boards or PullRequests outside filter mode: on a
\* list with items the detail view becomes current, shows the record
\* at the selected position and the list view is the previous view; on
\* an empty list the current and the previous view stay
C18_EnterStep ==
    \A v \in {ViewBoards, ViewPullRequests} :
        (mainPc = "readKey" /\ key' = Key("KeyEnter")
           /\ app.currentView = v /\ ~IsFilterMode(app.lists[v])) =>
            IF Len(app.lists[v].items) > 0
            THEN /\ app'.currentView = DetailOf(v)
                 /\ app'.previousView = v
                 /\ ShownBy(app', v) = app.viewData[v][app.lists[v].selected + 1]
            ELSE /\ app'.currentView = app.currentView
                 /\ app'.previousView = app.previousView

\* C18: in Boards (PullRequests) outside filter mode, Enter on a
\* non-empty list opens the work-item (pull-request) detail view on the
\* record at the selected position with Boards (PullRequests) as the
\* previous view, and Enter on an empty list changes neither view.
C18_EnterOpensDetail == [][C18_EnterStep]_vars

\* Enter on the second pull request has opened its detail view
C18_Witness ==
    /\ key = Key("KeyEnter")
    /\ viewBefore = ViewPullRequests
    /\ app.currentView = ViewPRDetail
    /\ app.previousView = ViewPullRequests
    /\ app.lists[ViewPullRequests].selected = 1
    /\ app.prDetail = app.viewData[ViewPullRequests][2]

\* ------------------------------------------------------------------
\* Claims on the refresh and the widgets (SpecReload, SpecRefresh)
\* ------------------------------------------------------------------
\* the widget state of a list: selection, scroll offset, filter query
\* and filtered index
WidgetState(l) == <<l.selected, l.scroll, l.filterQuery, l.filtered>>

\* a step of a refresh goroutine (every step of the main goroutine moves
\* its program counter)
RefreshStep == mainPc' = mainPc

\* C19: no step of a background refresh changes the selection, the
\* scroll offset, the filter query or the filtered index of a list view.
C19_RefreshKeepsWidgets ==
    [][RefreshStep =>
         \A v \in ListViews :
             WidgetState(app'.lists[v]) = WidgetState(app.lists[v])]_vars

\* the fields of the data snapshot: the five collections, the time of
\* the last refresh and the loading flag
SnapshotFields(a) ==
    <<a.workItems, a.builds, a.pipelineList, a.repoList, a.prList,
      a.lastRefresh, a.loading>>

\* a step of the main goroutine that reads a snapshot field: render's
\* test of the loading flag and the drawing of the current view
MainReadsSnapshot == mainPc \in {"render", "drawing"} /\ mainPc' # mainPc

\* C20: a step that changes a snapshot field is taken by the holder of
\* the write lock, and a step of the main goroutine that reads one is
\* taken while it holds the read lock.
C20_SnapshotUnderLock ==
    [][/\ SnapshotFields(app') # SnapshotFields(app) => app.mu.writer # 0
       /\ MainReadsSnapshot => app.mu.readers > 0]_vars

\* a refresh task between its first statement and its Unlock
InFlight(t) == tasks[t].pc \in {"lock"} \cup LockedPcs

\* C21: a render that has passed the test of the loading flag gets the
\* read lock at once: no refresh task holds the snapshot lock while the
\* main goroutine stands at RLock.
C21_RenderNeverWaits == mainPc = "rlock" => CanRLock(app)

\* C30: the loading flag is set while some refresh task is between its
\* first statement and its Unlock, and it is clear when no refresh task
\* has begun and not yet ended.
C30_LoadingIffInFlight ==
    /\ (\E t \in TaskIds : InFlight(t)) => app.loading
    /\ (\A t \in TaskIds : tasks[t].pc \in {"idle", "start", "done"}) => ~app.loading

\* C22: the terminal device is written by the main goroutine only: no
\* step of a refresh task is its last writer.
C22_TerminalOwnedByMain == app.termWriter \in {"none", "main"}

\* a refresh task has run to its end, status message set, and the
\* terminal's last writer is the main goroutine
C22_Witness ==
    /\ \E t \in TaskIds : tasks[t].pc = "done"
    /\ app.message = "Data refreshed"
    /\ app.termWriter = "main"

\* a ReadKey that returns an error is followed by the next iteration of
\* the loop with the App and the refresh tasks as they were
C23_ReadErrorStep ==
    (mainPc = "readKey" /\ key' = ReadFailed) =>
        /\ app' = app
        /\ tasks' = tasks
        /\ mainPc' = "render"

\* C23: when ReadKey returns an error no key is dispatched: the views,
\* the widget state and the snapshot are unchanged, no refresh is
\* launched, and the main loop goes on with its next iteration.
C23_ReadErrorSkipped == [][C23_ReadErrorStep]_vars

\* a read error while a refresh is in flight: the loop is back at render
C23_Witness ==
    /\ key = ReadFailed
    /\ mainPc = "render"
    /\ app.running
    /\ \E t \in TaskIds : InFlight(t)

\* ------------------------------------------------------------------
\* Claims on Run from start to return (SpecRun, FairRun)
\* ------------------------------------------------------------------
\* the main goroutine is in the render / read-key loop
InLoop == mainPc \in {"render", "rlock", "drawing", "readKey"}

\* C24: when enabling raw mode fails the loop is not entered: the main
\* goroutine is in the render / read-key loop only with raw mode on.
C24_RawModeFailureIsFatal == InLoop => app.rawMode

\* the step that follows the end of the loop is Run's return, with the
\* cursor shown and raw mode off
C25_ExitStep ==
    (mainPc = "exit" /\ mainPc' # mainPc) =>
        /\ mainPc' = "done"
        /\ app'.cursor
        /\ ~app'.rawMode

\* Run has returned with the cursor shown and raw mode off
C25_Restored == mainPc = "done" => (app.cursor /\ ~app.rawMode /\ ~app.running)

\* C25: on every path by which Run returns after its loop has started
\* (q accepted by the global handler, or interrupt) the cursor has been
\* shown and raw mode disabled after the last frame and before the
\* return.
C25_RestoredOnReturn == []C25_Restored /\ [][C25_ExitStep]_vars

\* Run has returned after q in the Boards view of an interactive
\* terminal
C25_Witness ==
    /\ mainPc = "done"
    /\ key = KeyRune("q")
    /\ viewBefore = ViewBoards
    /\ app.cursor
    /\ ~app.rawMode

\* a dispatched interrupt clears running, changes nothing else of the
\* App, starts no refresh and ends the loop
C29_InterruptStep ==
    (mainPc = "readKey" /\ key' = Key("KeyCtrlC")) =>
        /\ app' = [app EXCEPT !.running = FALSE]
        /\ tasks' = tasks
        /\ mainPc' = "exit"

\* C29: in any view, in filter mode or not, with a Copilot query being
\* typed or a refresh in flight, a dispatched interrupt clears running
\* without changing the views, the widgets or the snapshot, and Run
\* then returns.
C29_InterruptStops ==
    /\ [][C29_InterruptStep]_vars
    /\ (mainPc = "exit") ~> (mainPc = "done")

\* Run has returned after an interrupt in the Boards view in filter
\* mode while the startup refresh was still in flight
C29_Witness ==
    /\ mainPc = "done"
    /\ key = Key("KeyCtrlC")
    /\ viewBefore = ViewBoards
    /\ IsFilterMode(app.lists[ViewBoards])
    /\ ~app.running
    /\ \E t \in TaskIds : InFlight(t)

C27_InsertThenBackspace ==
    op.name = "Backspace" =>
        /\ (op.run = 0 /\ before.value = <<>>) => out = <<>>
        /\ op.run = 1 => /\ out = before.value
                         /\ FilterQuery(list) = before.query

TaskOrder ==
    <<"idle", "start", "lock", "workItems", "builds", "pipelines", "repos",
      "prs", "stamp", "unlock", "status", "done">>

\* a step of the goroutines and of the key r: a goroutine only moves to the
\* next position of refreshData, it has released the write lock when it
\* reaches the status message and has posted "Data refreshed" when it is
\* done, and an r accepted by the global handler starts a goroutine of its
\* own whatever the others are doing
C31_RefreshStep ==
    /\ \A t \in TaskIds :
         tasks'[t].pc # tasks[t].pc =>
            /\ \E i \in 1..(Len(TaskOrder) - 1) :
                 tasks[t].pc = TaskOrder[i] /\ tasks'[t].pc = TaskOrder[i + 1]
            /\ tasks'[t].pc = "status" => app'.mu.writer = 0
            /\ tasks'[t].pc = "done" => app'.message = "Data refreshed"
    /\ (mainPc = "readKey" /\ mainPc' = "render" /\ launchesRefresh(app, key')) =>
         \E t \in TaskIds : tasks[t].pc = "idle" /\ tasks'[t].pc = "start"

\* C31 as stated: every refresh goroutine that is launched runs to its
\* last statement
C31_EveryRefreshCompletes ==
    \A t \in TaskIds : (tasks[t].pc = "start") ~> (tasks[t].pc = "done")

\* C31, amended: every refresh goroutine that is launched runs to its last
\* statement, releasing the write lock and posting "Data refreshed",
\* unless Run returns first (the process then ends with its goroutines);
\* no refresh is skipped or cut short because another one is running
C31_RefreshCompletesUnlessQuit ==
    /\ [][C31_RefreshStep]_vars
    /\ \A t \in TaskIds :
         (tasks[t].pc = "start") ~> (tasks[t].pc = "done" \/ mainPc = "done")

\* the refresh asked for with r has run to its end while the startup
\* refresh, still in flight, has its status message left to post
C31_Witness ==
    /\ tasks[2].pc = "done"
    /\ tasks[1].pc = "status"
    /\ app.message = "Data refreshed"
    /\ mainPc # "done"

\* C32: in filter mode of a list view a typed character sets the filter
\* query to the previous query with the character appended, derives the
\* filtered index subsequence from the new query, and leaves selection 0
\* and scroll 0, whatever the selection was before the key
C32_TypedInFilterMode ==
    (op.name = "HandleKey" /\ key.type = "KeyRune" /\ before.filterMode) =>
        /\ list.filterQuery = before.filterQuery \o RuneString(key.rune)
        /\ list.filtered = Matching(list)
        /\ list.selected = 0
        /\ list.scroll = 0
        /\ list.filterMode
        /\ list.items = before.items

\* a character has been typed in filter mode with the selection off the
\* first item and the list scrolled, and it matches an item
C32_Witness ==
    /\ op.name = "HandleKey"
    /\ key.type = "KeyRune"
    /\ before.filterMode
    /\ before.selected > 0
    /\ before.scroll > 0
    /\ Len(list.filtered) > 0

\* the order of the main goroutine's positions in Run
LoopOrder ==
    { <<"start", "render">>, <<"render", "rlock">>, <<"render", "readKey">>,
      <<"rlock", "drawing">>, <<"drawing", "readKey">>,
      <<"readKey", "render">>, <<"readKey", "exit">>, <<"exit", "done">> }

\* the step has put a newer snapshot or a newer "Last refresh" on screen
NewlyShown ==
    \/ screen'.snapshot # screen.snapshot
    \/ screen'.statusRefresh # screen.statusRefresh

C33_LoopStep ==
    /\ mainPc' # mainPc => <<mainPc, mainPc'>> \in LoopOrder
    /\ mainPc' = mainPc => ~NewlyShown
    /\ NewlyShown => mainPc \in {"render", "drawing"}
    /\ key' \notin {key, NoKey} => mainPc = "readKey"
    /\ app'.reached # app.reached => (mainPc = "readKey" \/ app'.reached = <<>>)

C34_DetailViewKeepsKeys ==
    (mainPc = "render" /\ viewBefore \in {ViewWorkItemDetail, ViewPRDetail}) =>
        IF key \in {Key("KeyEscape"), KeyRune("b")}
        THEN app.currentView = app.previousView
        ELSE app.currentView = viewBefore

\* the refresh goroutines between a.mu.Lock() and a.mu.Unlock()
Holders == { t \in TaskIds : tasks[t].pc \in LockedPcs }

\* at most one goroutine is between Lock and Unlock; it is the writer of
\* the lock, and every snapshot field is what that goroutine made of it:
\* the value it fetched, or the value the field had when the goroutine
\* took the lock if it has not fetched the field yet or the fetch failed
C35_OneWriter ==
    /\ Cardinality(Holders) <= 1
    /\ Holders = {} => app.mu.writer = 0
    /\ \A t \in Holders :
         /\ app.mu.writer = t
         /\ \A f \in DOMAIN Snapshot(app) :
              Snapshot(app)[f] =
                  IF f \in DOMAIN tasks[t].got /\ tasks[t].got[f].ok
                  THEN tasks[t].got[f].val
                  ELSE tasks[t].pre[f]

\* a step that changes the snapshot is a step of the goroutine holding
\* the lock, and a goroutine that takes the lock starts from the snapshot
\* the goroutines before it left
C35_WriteStep ==
    /\ Snapshot(app') # Snapshot(app) =>
         \E t \in Holders : tasks'[t].pc # tasks[t].pc
    /\ \A t \in TaskIds :
         (tasks[t].pc = "lock" /\ tasks'[t].pc # "lock") =>
            /\ Holders = {}
            /\ tasks'[t].pre = Snapshot(app)

\* C35: at most one refresh task is between acquiring and releasing the
\* write lock; the fetches and field writes of overlapping tasks are not
\* interleaved, so the snapshot is the one their critical sections
\* produce one after the other in the order they took the lock
C35_RefreshesSerialized == []C35_OneWriter /\ [][C35_WriteStep]_vars

\* the second refresh is about to unlock while the first has its status
\* left to post: it started from what the first wrote, kept the work
\* items the first fetched (its own fetch failed) and fetched the
\* pipelines the first had failed to fetch
C35_Witness ==
    /\ tasks[2].pc = "unlock"
    /\ tasks[1].pc = "status"
    /\ tasks[2].pre["workItems"] # <<>>
    /\ ~tasks[2].got["workItems"].ok
    /\ tasks[2].pre["pipelines"] = <<>>
    /\ tasks[2].got["pipelines"].ok

\* C36: once a key handler that moves the selection and a refresh that
\* replaces the list's items have both finished, in whatever order their
\* statements ran, the selection is a valid index into the active
\* sequence (or that sequence is empty) and the scroll offset is at most
\* max(0, N-H)
C36_ValidAfterRace ==
    (mainPc = "render" /\ tasks[1].pc = "builds") =>
        /\ \/ Len(activeIndices(list)) = 0
           \/ list.selected \in 0..(Len(activeIndices(list)) - 1)
        /\ list.scroll <= Max(0, Len(activeIndices(list)) - list.height)

\* C37: while the main loop runs, the terminal cursor is shown and the
\* Copilot input is active exactly when the current view is Copilot; in
\* every other view the cursor is hidden and the input inactive
C37_FocusFollowsCopilot ==
    InLoop =>
        /\ app.cursor <=> app.currentView = ViewCopilot
        /\ app.input.active <=> app.currentView = ViewCopilot

\* Copilot has been opened from a pull-request detail and has the cursor
C37_Witness ==
    /\ mainPc = "readKey"
    /\ app.currentView = ViewCopilot
    /\ app.previousView = ViewPRDetail
    /\ app.cursor
    /\ app.input.active

\* the snapshot field a list view's records come from
SnapshotOf(a, v) ==
    CASE v = ViewBoards -> a.workItems
      [] v = ViewPipelines -> a.pipelineList
      [] v = ViewRepos -> a.repoList
      [] v = ViewPullRequests -> a.prList

\* C38: whenever no refresh task is between Lock and Unlock, the views
\* hold the snapshot: each list view has the records of its snapshot
\* field and one list item per record in the same order, and the
\* Dashboard has the snapshot's work items, builds and pull requests,
\* also for the categories whose last fetch failed
C38_ViewsHoldSnapshot ==
    (\A t \in TaskIds : tasks[t].pc \notin LockedPcs) =>
        /\ \A v \in ListViews :
             /\ app.viewData[v] = SnapshotOf(app, v)
             /\ app.lists[v].items = ListItemsOf(v, SnapshotOf(app, v))
        /\ app.dashboard = [workItems |-> app.workItems, builds |-> app.builds,
                            prs |-> app.prList]

\* the second refresh has unlocked after its work-item and build fetches
\* failed on a snapshot the first refresh had filled
C38_Witness ==
    /\ tasks[2].pc = "status"
    /\ tasks[1].pc = "done"
    /\ app.workItems # <<>>
    /\ app.builds # <<>>
    /\ app.pipelineList = <<>>
    /\ app.lastRefresh = 2
    /\ Len(app.lists[ViewBoards].items) = Len(app.workItems)

==========================================================================
